---- MODULE Spec2Model ----
(***************************************************************************)
(* A model of astroplan/constraints.py: the per-observer astrometric       *)
(* cache, the Constraint classes with their limit normalisation, the       *)
(* limit vectorisation helper and the aggregate observability queries.     *)
(*                                                                         *)
(* numpy arrays are modelled with their shape and their row-major data,    *)
(* so that broadcasting, tiling, reshaping and boolean indexing are        *)
(* computed as numpy computes them.  A Python exception is the value       *)
(* Raise(exc).  Angles are whole degrees, airmass and the lunar            *)
(* illumination are in hundredths, instants are whole ticks of one day of  *)
(* DayLen ticks.                                                           *)
(***************************************************************************)
EXTENDS Integers, Sequences, FiniteSets, TLC

VARIABLES pressure,      \* observer.pressure
          timezone,      \* observer.timezone (offset from UTC, in ticks)
          altaz_cache,   \* observer._altaz_cache
          moon_cache,    \* observer._moon_cache
          calls,         \* invocations of the ephemeris collaborators by the last operation
          seen,          \* pressures the collaborators saw during the last operation
          targets,       \* the targets of the session
          times,         \* the times argument of the session
          last           \* the last operation: its arguments and what it returned

vars == <<pressure, timezone, altaz_cache, moon_cache, calls, seen, targets, times, last>>

----------------------------------------------------------------------------
(* Bounds of the model *)

MaxTargets == 2
MaxTimes == 2
MaxInstant == 3
MaxVec == 2

Instants == 0..MaxInstant
DayLen == MaxInstant + 1

----------------------------------------------------------------------------
(* numpy: arrays of at most two dimensions *)

Arr(dtype, shape, data) ==
    [tag |-> "arr", dtype |-> dtype, shape |-> shape, data |-> data, exc |-> ""]

NoneV == [tag |-> "none", dtype |-> "", shape |-> <<>>, data |-> <<>>, exc |-> ""]

Raise(exc) == [tag |-> "raise", dtype |-> "", shape |-> <<>>, data |-> <<>>, exc |-> exc]

Scalar(dtype, v) == Arr(dtype, <<>>, <<v>>)

List(dtype, vs) == Arr(dtype, <<Len(vs)>>, vs)

IsArr(a) == a.tag = "arr"
IsNone(a) == a.tag = "none"
IsRaise(a) == a.tag = "raise"

\* Equality of two values, compared field by field so that arrays of
\* different element types are never compared element by element.
Same(a, b) ==
    /\ a.tag = b.tag
    /\ a.exc = b.exc
    /\ a.dtype = b.dtype
    /\ a.shape = b.shape
    /\ a.data = b.data

Ndim(a) == Len(a.shape)

\* The shape with leading 1s prepended, as broadcasting does.
Dim2(a) ==
    IF Ndim(a) = 0 THEN <<1, 1>>
    ELSE IF Ndim(a) = 1 THEN <<1, a.shape[1]>>
    ELSE a.shape

Size(a) == Len(a.data)

Rows(a) == Dim2(a)[1]
Cols(a) == Dim2(a)[2]

\* Element (i, j) of a, read through broadcasting.
At(a, i, j) ==
    a.data[(IF Rows(a) = 1 THEN 0 ELSE i - 1) * Cols(a) + (IF Cols(a) = 1 THEN 1 ELSE j)]

\* Element k, in row-major order, of a broadcast to c columns
AtFlat(a, k, c) == At(a, ((k - 1) \div c) + 1, ((k - 1) % c) + 1)

BDim(x, y) == IF x = 1 THEN y ELSE x

Broadcastable(a, b) ==
    /\ Rows(a) = Rows(b) \/ Rows(a) = 1 \/ Rows(b) = 1
    /\ Cols(a) = Cols(b) \/ Cols(a) = 1 \/ Cols(b) = 1

\* The shape of r rows and c columns in n dimensions
ShapeOf(n, r, c) == IF n = 0 THEN <<>> ELSE IF n = 1 THEN <<c>> ELSE <<r, c>>

BShape(a, b) ==
    ShapeOf(IF Ndim(a) > Ndim(b) THEN Ndim(a) ELSE Ndim(b),
            BDim(Rows(a), Rows(b)), BDim(Cols(a), Cols(b)))

FirstRaise(a, b) == IF IsRaise(a) THEN a ELSE b

\* The elements of a binary ufunc's result of r rows and c columns
Zip(Op(_, _), Bad(_, _), dtype, shape, a, b, r, c) ==
    IF \E k \in 1..(r * c) : Bad(AtFlat(a, k, c), AtFlat(b, k, c))
    THEN Raise("TypeError")
    ELSE Arr(dtype, shape, [k \in 1..(r * c) |-> Op(AtFlat(a, k, c), AtFlat(b, k, c))])

\* A binary ufunc: elementwise Op under broadcasting.  Bad(x, y) says where
\* the Python operator itself raises TypeError.
Map2(Op(_, _), Bad(_, _), dtype, a, b) ==
    IF IsRaise(a) \/ IsRaise(b) THEN FirstRaise(a, b)
    ELSE IF IsNone(a) \/ IsNone(b) THEN Raise("TypeError")
    ELSE IF ~Broadcastable(a, b) THEN Raise("ValueError")
    ELSE Zip(Op, Bad, dtype, BShape(a, b), a, b,
             BDim(Rows(a), Rows(b)), BDim(Cols(a), Cols(b)))

NeverBad(x, y) == FALSE

Le(x, y) == x <= y
Lt(x, y) == x < y
Ge(x, y) == x >= y
Gt(x, y) == x > y
AndOp(x, y) == x /\ y
OrOp(x, y) == x \/ y
Plus(x, y) == x + y

ArrLe(a, b) == Map2(Le, NeverBad, "bool", a, b)
ArrLt(a, b) == Map2(Lt, NeverBad, "bool", a, b)
ArrGe(a, b) == Map2(Ge, NeverBad, "bool", a, b)
ArrGt(a, b) == Map2(Gt, NeverBad, "bool", a, b)
ArrAnd(a, b) == Map2(AndOp, NeverBad, "bool", a, b)
ArrOr(a, b) == Map2(OrOp, NeverBad, "bool", a, b)

\* ~mask
ArrNot(a) ==
    IF ~IsArr(a) THEN a
    ELSE Arr("bool", a.shape, [k \in 1..Size(a) |-> ~a.data[k]])

\* np.atleast_2d
AtLeast2d(a) ==
    IF ~IsArr(a) THEN a ELSE Arr(a.dtype, Dim2(a), a.data)

\* .T of a two-dimensional array
Transpose(a) ==
    IF ~IsArr(a) THEN a
    ELSE LET r == a.shape[1]
             c == a.shape[2]
         IN Arr(a.dtype, <<c, r>>,
                [k \in 1..(r * c) |-> a.data[((k - 1) % r) * c + ((k - 1) \div r) + 1]])

\* np.tile(a, n) with a whole number n: the last axis is repeated n times.
Tile(a, n) ==
    IF ~IsArr(a) THEN a
    ELSE LET s == Dim2(a)
             r == s[1]
             c == s[2]
             shape == IF Ndim(a) = 2 THEN <<r, c * n>> ELSE <<c * n>>
         IN Arr(a.dtype, shape,
                [k \in 1..(r * c * n) |->
                    a.data[((k - 1) \div (c * n)) * c + (((k - 1) % (c * n)) % c) + 1]])

\* a.reshape(r, c)
Reshape(a, r, c) ==
    IF ~IsArr(a) THEN a
    ELSE IF Size(a) # r * c THEN Raise("ValueError")
    ELSE Arr(a.dtype, <<r, c>>, a.data)

\* a[:, np.newaxis] of a one-dimensional array
NewAxis(a) ==
    IF ~IsArr(a) THEN a ELSE Arr(a.dtype, <<a.shape[1], 1>>, a.data)

\* bool(a): the truth value Python's `and`, `if` and `elif` ask of an array.
Truth(a) ==
    IF IsRaise(a) THEN a
    ELSE IF IsNone(a) THEN Scalar("bool", FALSE)
    ELSE IF Size(a) > 1 THEN Raise("ValueError")
    ELSE IF Size(a) = 0 THEN Scalar("bool", FALSE)
    ELSE Scalar("bool", a.data[1])

\* x[mask] = y[mask] for three arrays of one shape
AssignWhere(x, mask, y) ==
    IF IsRaise(x) \/ IsRaise(mask) \/ IsRaise(y)
    THEN FirstRaise(x, FirstRaise(mask, y))
    ELSE IF mask.shape # x.shape \/ y.shape # x.shape THEN Raise("IndexError")
    ELSE Arr(x.dtype, x.shape,
             [k \in 1..Size(x) |-> IF mask.data[k] THEN y.data[k] ELSE x.data[k]])

\* Row i of a two-dimensional array, as a sequence
RowOf(a, i) == [j \in 1..a.shape[2] |-> a.data[(i - 1) * a.shape[2] + j]]

----------------------------------------------------------------------------
(* The collaborators: the sky as the observer and the ephemerides report it *)

Sun == 0

\* Atmospheric refraction lifts what is at or below the horizon when the
\* pressure is not zero.
Refract(alt, p) == IF p > 0 /\ alt <= 0 THEN alt + 1 ELSE alt

TargetAlt(tg, t, p) == Refract((((tg + 2 * t) % 5) * 20) - 20, p)

SunAlt(t, p) ==
    Refract(CASE t % 4 = 0 -> -18 [] t % 4 = 1 -> -6 [] t % 4 = 2 -> 0 [] OTHER -> 30, p)

MoonAlt(t, p) == Refract(IF t % 2 = 0 THEN -10 ELSE 30, p)

MoonIllum(t) ==
    CASE t % 4 = 0 -> 10 [] t % 4 = 1 -> 25 [] t % 4 = 2 -> 65 [] OTHER -> 100

SunSep(tg, t) == (tg * 50 + t * 40) % 181

\* get_moon(t, location, ephemeris) and the separation of a target from it
MoonSep(tg, t, ephemeris) == (tg * 70 + t * 30 + ephemeris) % 181

\* altaz.secz, in hundredths: the secant of the zenith angle
SecZ(alt) ==
    CASE alt >= 90 -> 100
      [] alt >= 60 -> 115
      [] alt >= 40 -> 156
      [] alt >= 20 -> 292
      [] alt > 0 -> 5730
      [] alt = 0 -> 10000000
      [] alt >= -20 -> -292
      [] OTHER -> -100

\* What an operation works on: the observer, the count of collaborator
\* invocations, and the pressures they saw.
World == [pressure |-> pressure, timezone |-> timezone,
          altaz_cache |-> altaz_cache, moon_cache |-> moon_cache,
          calls |-> 0, seen |-> {}]

\* A function's return value together with the world it leaves.
Ret(w, ret) == [w |-> w, ret |-> ret]

\* One invocation of a collaborator that reads the observer.
Invoke(w) == [w EXCEPT !.calls = @ + 1, !.seen = @ \cup {w.pressure}]

\* observer.altaz(times, targets) for a list of targets: shape (N, M)
ObserverAltaz(w, tm, tgs, ok) ==
    LET n == Len(tgs)
        m == Size(tm)
    IN Ret(Invoke(w),
           IF ~ok THEN Raise("EphemerisError")
           ELSE Arr("int", <<n, m>>,
                    [k \in 1..(n * m) |->
                        TargetAlt(tgs[((k - 1) \div m) + 1], tm.data[((k - 1) % m) + 1],
                                  w.pressure)]))

\* observer.altaz(times, get_sun(times), grid=False): shape (M,)
ObserverSunAltaz(w, tm, ok) ==
    Ret(Invoke(Invoke(w)),
        IF ~ok THEN Raise("EphemerisError")
        ELSE Arr("int", <<Size(tm)>>,
                 [k \in 1..Size(tm) |-> SunAlt(tm.data[k], w.pressure)]))

\* observer.moon_altaz(times) and moon_illumination(times): shape (M,) each
ObserverMoonAltaz(w, tm, ok) ==
    Ret(Invoke(w),
        IF ~ok THEN Raise("EphemerisError")
        ELSE Arr("int", <<Size(tm)>>,
                 [k \in 1..Size(tm) |-> MoonAlt(tm.data[k], w.pressure)]))

MoonIllumination(w, tm) ==
    Ret(Invoke(w),
        Arr("int", <<Size(tm)>>, [k \in 1..Size(tm) |-> MoonIllum(tm.data[k])]))

----------------------------------------------------------------------------
(* The astrometric cache *)

\* A cache that keeps the newest entry only
PutEvicting(cache, key, entry) == [k \in {key} |-> entry]

Put(cache, key, entry) ==
    [k \in (DOMAIN cache) \cup {key} |-> IF k = key THEN entry ELSE cache[k]]

\* _get_altaz as it would be without the membership test on the cache
GetAltazUncached(w, tm, tgs, force_zero_pressure, ok) ==
    LET aakey == <<tm.data, tgs>>
        observer_old_pressure == w.pressure
        w1 == IF force_zero_pressure THEN [w EXCEPT !.pressure = 0] ELSE w
        r == ObserverAltaz(w1, tm, tgs, ok)
        w2 == IF IsRaise(r.ret) THEN r.w
              ELSE [r.w EXCEPT !.altaz_cache = Put(@, aakey, r.ret)]
        w3 == IF force_zero_pressure
              THEN [w2 EXCEPT !.pressure = observer_old_pressure]
              ELSE w2
    IN Ret(w3, r.ret)

\* _get_altaz as it would be with the restore after the computation
\* instead of in a finally clause
GetAltazNoFinally(w, tm, tgs, force_zero_pressure, ok) ==
    LET aakey == <<tm.data, tgs>>
    IN IF aakey \in DOMAIN w.altaz_cache
       THEN Ret(w, w.altaz_cache[aakey])
       ELSE LET observer_old_pressure == w.pressure
                w1 == IF force_zero_pressure THEN [w EXCEPT !.pressure = 0] ELSE w
                r == ObserverAltaz(w1, tm, tgs, ok)
                w2 == IF IsRaise(r.ret) THEN r.w
                      ELSE [r.w EXCEPT !.altaz_cache = Put(@, aakey, r.ret)]
                w3 == IF force_zero_pressure /\ ~IsRaise(r.ret)
                      THEN [w2 EXCEPT !.pressure = observer_old_pressure]
                      ELSE w2
            IN Ret(w3, r.ret)

\* _get_altaz(times, observer, targets, force_zero_pressure)
GetAltaz(w, tm, tgs, force_zero_pressure, ok) ==
    LET aakey == <<tm.data, tgs>>
    IN IF aakey \in DOMAIN w.altaz_cache
       THEN Ret(w, w.altaz_cache[aakey])
       ELSE LET observer_old_pressure == w.pressure
                w1 == IF force_zero_pressure THEN [w EXCEPT !.pressure = 0] ELSE w
                r == ObserverAltaz(w1, tm, tgs, ok)
                w2 == IF IsRaise(r.ret) THEN r.w
                      ELSE [r.w EXCEPT !.altaz_cache = Put(@, aakey, r.ret)]
                w3 == IF force_zero_pressure
                      THEN [w2 EXCEPT !.pressure = observer_old_pressure]
                      ELSE w2
            IN Ret(w3, r.ret)

\* _get_moon_data(times, observer, force_zero_pressure): the entry holds the
\* Moon's altitudes (its first row) and its illumination (its second row).
GetMoonData(w, tm, force_zero_pressure, ok) ==
    LET aakey == tm.data
    IN IF aakey \in DOMAIN w.moon_cache
       THEN Ret(w, w.moon_cache[aakey])
       ELSE LET observer_old_pressure == w.pressure
                w1 == IF force_zero_pressure THEN [w EXCEPT !.pressure = 0] ELSE w
                r == ObserverMoonAltaz(w1, tm, ok)
                i == MoonIllumination(r.w, tm)
                entry == Arr("int", <<2, Size(tm)>>, r.ret.data \o i.ret.data)
                w2 == IF IsRaise(r.ret) THEN r.w
                      ELSE [i.w EXCEPT !.moon_cache = Put(@, aakey, entry)]
                w3 == IF force_zero_pressure
                      THEN [w2 EXCEPT !.pressure = observer_old_pressure]
                      ELSE w2
            IN Ret(w3, IF IsRaise(r.ret) THEN r.ret ELSE entry)

\* cached_moon['altaz'].alt and cached_moon['illum']
MoonEntryAlt(e) == Arr("int", <<e.shape[2]>>, SubSeq(e.data, 1, e.shape[2]))
MoonEntryIllum(e) == Arr("int", <<e.shape[2]>>, SubSeq(e.data, e.shape[2] + 1, 2 * e.shape[2]))

----------------------------------------------------------------------------
(* Limits *)

\* Constraint._recast_limits
RecastLimits(limit) ==
    IF IsNone(limit) THEN NoneV ELSE Transpose(AtLeast2d(limit))

\* Constraint._check_limit_shape: TRUE when it returns, FALSE when it raises
CheckLimitShape(values, limit) ==
    IF IsNone(limit) THEN TRUE
    ELSE IF limit.shape = <<>> \/ limit.shape = <<1, 1>> THEN TRUE
    ELSE ~(values.shape = <<>> \/ values.shape[1] # limit.shape[1])

----------------------------------------------------------------------------
(* Rescaling functions: scores are fractions <<numerator, denominator>> *)

RECURSIVE Gcd(_, _)
Gcd(a, b) == IF b = 0 THEN a ELSE Gcd(b, a % b)

Abs(x) == IF x < 0 THEN -x ELSE x

\* n / d in lowest terms; a zero denominator gives numpy's inf (<<1, 0>>,
\* <<-1, 0>>) or nan (<<0, 0>>).
Frac(n, d) ==
    IF d = 0 THEN <<IF n > 0 THEN 1 ELSE IF n < 0 THEN -1 ELSE 0, 0>>
    ELSE LET g == Gcd(Abs(n), Abs(d))
             sg == IF d < 0 THEN -1 ELSE 1
         IN <<(sg * n) \div g, (sg * d) \div g>>

Minus(x, y) == x - y
FracOp(x, y) == Frac(x, y)

\* rescaled[mask] = v
AssignConst(x, mask, v) ==
    IF IsRaise(x) \/ IsRaise(mask) THEN FirstRaise(x, mask)
    ELSE IF mask.shape # x.shape THEN Raise("IndexError")
    ELSE Arr(x.dtype, x.shape, [k \in 1..Size(x) |-> IF mask.data[k] THEN v ELSE x.data[k]])

\* The rescaling without `rescaled[above] = 0`
MinBestRescaleUnclamped(vals, min_val, max_val, less_than_min) ==
    LET rescaled == Map2(FracOp, NeverBad, "float",
                         Map2(Minus, NeverBad, "int", vals, max_val),
                         Map2(Minus, NeverBad, "int", min_val, max_val))
        below == ArrLt(vals, min_val)
    IN AssignConst(rescaled, below, <<less_than_min, 1>>)

\* min_best_rescale(vals, min_val, max_val, less_than_min)
MinBestRescale(vals, min_val, max_val, less_than_min) ==
    LET rescaled == Map2(FracOp, NeverBad, "float",
                         Map2(Minus, NeverBad, "int", vals, max_val),
                         Map2(Minus, NeverBad, "int", min_val, max_val))
        below == ArrLt(vals, min_val)
        above == ArrGt(vals, max_val)
    IN AssignConst(AssignConst(rescaled, below, <<less_than_min, 1>>), above, <<0, 1>>)

\* The rescaling without `rescaled[below] = 0`
MaxBestRescaleUnclamped(vals, min_val, max_val, greater_than_max) ==
    LET rescaled == Map2(FracOp, NeverBad, "float",
                         Map2(Minus, NeverBad, "int", vals, min_val),
                         Map2(Minus, NeverBad, "int", max_val, min_val))
        above == ArrGt(vals, max_val)
    IN AssignConst(rescaled, above, <<greater_than_max, 1>>)

\* max_best_rescale(vals, min_val, max_val, greater_than_max)
MaxBestRescale(vals, min_val, max_val, greater_than_max) ==
    LET rescaled == Map2(FracOp, NeverBad, "float",
                         Map2(Minus, NeverBad, "int", vals, min_val),
                         Map2(Minus, NeverBad, "int", max_val, min_val))
        below == ArrLt(vals, min_val)
        above == ArrGt(vals, max_val)
    IN AssignConst(AssignConst(rescaled, below, <<0, 1>>), above, <<greater_than_max, 1>>)

----------------------------------------------------------------------------
(* The constraint classes: construction *)

AltitudeMinDefault == -90
AltitudeMaxDefault == 90
AirmassMinDefault == 100
SeparationMinDefault == 0
SeparationMaxDefault == 180
IlluminationMinUnset == -50
IlluminationMaxUnset == 150
IlluminationFull == 100
EarlySentinel == 0
LateSentinel == MaxInstant

\* A datetime.time: its time of day and its tzinfo (<<>> when it has none,
\* <<offset>> when it carries a fixed offset).
TimeOfDay(tod, tz) == <<tod, tz>>
NoTz == <<>>

Constraint(kind, min, max) ==
    [tag |-> "constraint", kind |-> kind, min |-> min, max |-> max,
     max_solar_altitude |-> NoneV, boolean_constraint |-> TRUE,
     force_pressure_zero |-> FALSE, ephemeris |-> 0]

IsConstraint(c) == c.tag = "constraint"

\* AltitudeConstraint.__init__
AltitudeConstraint(min, max, boolean_constraint) ==
    [Constraint("Altitude",
                RecastLimits(IF IsNone(min) THEN Scalar("int", AltitudeMinDefault) ELSE min),
                RecastLimits(IF IsNone(max) THEN Scalar("int", AltitudeMaxDefault) ELSE max))
     EXCEPT !.boolean_constraint = boolean_constraint]

\* AirmassConstraint.__init__
AirmassConstraint(max, min, boolean_constraint) ==
    [Constraint("Airmass", RecastLimits(min), RecastLimits(max))
     EXCEPT !.boolean_constraint = boolean_constraint]

\* AtNightConstraint.__init__
AtNightConstraint(max_solar_altitude, force_pressure_zero) ==
    [Constraint("AtNight", NoneV, NoneV)
     EXCEPT !.max_solar_altitude = RecastLimits(max_solar_altitude),
            !.force_pressure_zero = force_pressure_zero]

\* SunSeparationConstraint.__init__
SunSeparationConstraint(min, max) ==
    Constraint("SunSeparation",
               RecastLimits(IF IsNone(min) THEN Scalar("int", SeparationMinDefault) ELSE min),
               RecastLimits(IF IsNone(max) THEN Scalar("int", SeparationMaxDefault) ELSE max))

\* MoonSeparationConstraint.__init__
MoonSeparationConstraint(min, max, ephemeris) ==
    [Constraint("MoonSeparation",
                RecastLimits(IF IsNone(min) THEN Scalar("int", SeparationMinDefault) ELSE min),
                RecastLimits(IF IsNone(max) THEN Scalar("int", SeparationMaxDefault) ELSE max))
     EXCEPT !.ephemeris = ephemeris]

\* MoonIlluminationConstraint.__init__
MoonIlluminationConstraint(min, max, ephemeris) ==
    [Constraint("MoonIllumination",
                RecastLimits(IF IsNone(min) THEN Scalar("int", IlluminationMinUnset) ELSE min),
                RecastLimits(IF IsNone(max) THEN Scalar("int", IlluminationMaxUnset) ELSE max))
     EXCEPT !.ephemeris = ephemeris]

\* LocalTimeConstraint.__init__
LocalTimeConstraint(min, max) ==
    IF IsNone(min) /\ IsNone(max) THEN Raise("ValueError")
    ELSE Constraint("LocalTime",
                    RecastLimits(IF IsNone(min) THEN Scalar("tod", TimeOfDay(0, NoTz)) ELSE min),
                    RecastLimits(IF IsNone(max)
                                 THEN Scalar("tod", TimeOfDay(DayLen - 1, NoTz)) ELSE max))

\* TimeConstraint.__init__: min and max are no limit properties, and are
\* stored as given (a list of Times as one non-scalar Time).
TimeConstraint(min, max) ==
    IF IsNone(min) /\ IsNone(max) THEN Raise("ValueError")
    ELSE Constraint("Time", min, max)

----------------------------------------------------------------------------
(* The constraint classes: compute_constraint *)

\* What a function returns that computes ret from what r returned: r's
\* exception when r raised
Then(r, ret) == IF IsRaise(r.ret) THEN r ELSE Ret(r.w, ret)

\* The altitude window with its two boundary altitudes left out
AltitudeMaskStrict(c, alt) ==
    IF ~(CheckLimitShape(alt, c.min) /\ CheckLimitShape(alt, c.max))
    THEN Raise("ValueError")
    ELSE IF c.boolean_constraint
    THEN ArrAnd(ArrLt(c.min, alt), ArrLt(alt, c.max))
    ELSE MaxBestRescale(alt, c.min, c.max, 1)

\* The altitude score with the altitudes above max scored as those below min
AltitudeMaskAboveIsWorst(c, alt) ==
    IF ~(CheckLimitShape(alt, c.min) /\ CheckLimitShape(alt, c.max))
    THEN Raise("ValueError")
    ELSE IF c.boolean_constraint
    THEN ArrAnd(ArrLe(c.min, alt), ArrLe(alt, c.max))
    ELSE MaxBestRescale(alt, c.min, c.max, 0)

\* AltitudeConstraint.compute_constraint, from the cached altitudes on
AltitudeMask(c, alt) ==
    IF ~(CheckLimitShape(alt, c.min) /\ CheckLimitShape(alt, c.max))
    THEN Raise("ValueError")
    ELSE IF c.boolean_constraint
    THEN ArrAnd(ArrLe(c.min, alt), ArrLe(alt, c.max))
    ELSE MaxBestRescale(alt, c.min, c.max, 1)

\* AltitudeConstraint.compute_constraint
AltitudeCompute(c, w, tm, tgs, ok) ==
    LET cached_altaz == GetAltaz(w, tm, tgs, FALSE, ok)
    IN Then(cached_altaz, AltitudeMask(c, cached_altaz.ret))

\* cached_altaz['altaz'].secz
SecZOf(alt) == Arr("int", alt.shape, [k \in 1..Size(alt) |-> SecZ(alt.data[k])])

\* The airmass score with the airmasses below min given the best score
AirmassMaskBelowIsBest(c, secz) ==
    IF ~(CheckLimitShape(secz, c.min) /\ CheckLimitShape(secz, c.max))
    THEN Raise("ValueError")
    ELSE IF c.boolean_constraint
    THEN IF IsNone(c.min) /\ ~IsNone(c.max) THEN ArrLe(secz, c.max)
         ELSE IF IsNone(c.max) /\ ~IsNone(c.min) THEN ArrLe(c.min, secz)
         ELSE IF ~IsNone(c.min) /\ ~IsNone(c.max)
         THEN ArrAnd(ArrLe(c.min, secz), ArrLe(secz, c.max))
         ELSE Raise("ValueError")
    ELSE IF IsNone(c.max) THEN Raise("ValueError")
    ELSE MinBestRescale(secz,
                        IF IsNone(c.min)
                        THEN RecastLimits(Scalar("int", AirmassMinDefault)) ELSE c.min,
                        c.max, 1)

\* AirmassConstraint.compute_constraint, from secz on
AirmassMask(c, secz) ==
    IF ~(CheckLimitShape(secz, c.min) /\ CheckLimitShape(secz, c.max))
    THEN Raise("ValueError")
    ELSE IF c.boolean_constraint
    THEN IF IsNone(c.min) /\ ~IsNone(c.max) THEN ArrLe(secz, c.max)
         ELSE IF IsNone(c.max) /\ ~IsNone(c.min) THEN ArrLe(c.min, secz)
         ELSE IF ~IsNone(c.min) /\ ~IsNone(c.max)
         THEN ArrAnd(ArrLe(c.min, secz), ArrLe(secz, c.max))
         ELSE Raise("ValueError")
    ELSE IF IsNone(c.max) THEN Raise("ValueError")
    ELSE MinBestRescale(secz,
                        IF IsNone(c.min)
                        THEN RecastLimits(Scalar("int", AirmassMinDefault)) ELSE c.min,
                        c.max, 0)

\* AirmassConstraint.compute_constraint
AirmassCompute(c, w, tm, tgs, ok) ==
    LET cached_altaz == GetAltaz(w, tm, tgs, FALSE, ok)
    IN Then(cached_altaz, AirmassMask(c, SecZOf(cached_altaz.ret)))

\* np.zeros((n, 1))
Zeros(n) == Arr("int", <<n, 1>>, [k \in 1..n |-> 0])

\* AtNightConstraint._get_solar_altitudes
GetSolarAltitudes(c, w, tm, tgs, ok) ==
    LET aakey == <<tm.data, <<Sun>>>>
        Broadcast(altitude) == Map2(Plus, NeverBad, "int", AtLeast2d(altitude), Zeros(Len(tgs)))
    IN IF aakey \in DOMAIN w.altaz_cache
       THEN Ret(w, Broadcast(w.altaz_cache[aakey]))
       ELSE LET observer_old_pressure == w.pressure
                w1 == IF c.force_pressure_zero THEN [w EXCEPT !.pressure = 0] ELSE w
                r == ObserverSunAltaz(w1, tm, ok)
                w2 == IF IsRaise(r.ret) THEN r.w
                      ELSE [r.w EXCEPT !.altaz_cache = Put(@, aakey, r.ret)]
                w3 == IF c.force_pressure_zero
                      THEN [w2 EXCEPT !.pressure = observer_old_pressure]
                      ELSE w2
            IN Ret(w3, Broadcast(r.ret))

\* AtNightConstraint.compute_constraint, from the solar altitudes on
AtNightMask(c, solar_altitude) ==
    IF ~CheckLimitShape(solar_altitude, c.max_solar_altitude)
    THEN Raise("ValueError")
    ELSE ArrLe(solar_altitude, c.max_solar_altitude)

\* AtNightConstraint.compute_constraint
AtNightCompute(c, w, tm, tgs, ok) ==
    LET solar_altitude == GetSolarAltitudes(c, w, tm, tgs, ok)
    IN Then(solar_altitude, AtNightMask(c, solar_altitude.ret))

RECURSIVE InvokeN(_, _)
InvokeN(w, n) == IF n = 0 THEN w ELSE InvokeN(Invoke(w), n - 1)

\* The separation window with its two boundary separations left out
SunSeparationComputeStrict(c, w, tm, tgs, ok) ==
    LET n == Len(tgs)
        m == Size(tm)
        w1 == Invoke(Invoke(w))
        w2 == InvokeN(w1, n)
        solar_separation ==
            Arr("int", <<n, m>>,
                [k \in 1..(n * m) |->
                    SunSep(tgs[((k - 1) \div m) + 1], tm.data[((k - 1) % m) + 1])])
    IN IF ~ok THEN Ret(w1, Raise("EphemerisError"))
       ELSE IF ~(CheckLimitShape(solar_separation, c.min)
                 /\ CheckLimitShape(solar_separation, c.max))
       THEN Ret(w2, Raise("ValueError"))
       ELSE Ret(w2, ArrAnd(ArrLt(c.min, solar_separation), ArrLt(solar_separation, c.max)))

\* SunSeparationConstraint.compute_constraint: the Sun's alt-az and each
\* target's alt-az are asked of the observer on every evaluation.
SunSeparationCompute(c, w, tm, tgs, ok) ==
    LET n == Len(tgs)
        m == Size(tm)
        w1 == Invoke(Invoke(w))
        w2 == InvokeN(w1, n)
        solar_separation ==
            Arr("int", <<n, m>>,
                [k \in 1..(n * m) |->
                    SunSep(tgs[((k - 1) \div m) + 1], tm.data[((k - 1) % m) + 1])])
    IN IF ~ok THEN Ret(w1, Raise("EphemerisError"))
       ELSE IF ~(CheckLimitShape(solar_separation, c.min)
                 /\ CheckLimitShape(solar_separation, c.max))
       THEN Ret(w2, Raise("ValueError"))
       ELSE Ret(w2, ArrAnd(ArrLe(c.min, solar_separation), ArrLe(solar_separation, c.max)))

\* MoonSeparationConstraint.compute_constraint: times is never scalar here
\* (__call__ promotes it), so the Moon is asked for once per instant, in
\* the frame of times[0].
MoonSeparationCompute(c, w, tm, tgs, ok) ==
    LET n == Len(tgs)
        m == Size(tm)
        w1 == Invoke(w)
        w2 == InvokeN(w, m)
        moon_separation ==
            Arr("int", <<n, m>>,
                [k \in 1..(n * m) |->
                    MoonSep(tgs[((k - 1) \div m) + 1], tm.data[((k - 1) % m) + 1],
                            c.ephemeris)])
    IN IF m = 0 THEN Ret(w, Raise("IndexError"))
       ELSE IF ~ok THEN Ret(w1, Raise("EphemerisError"))
       ELSE IF ~(CheckLimitShape(moon_separation, c.min)
                 /\ CheckLimitShape(moon_separation, c.max))
       THEN Ret(w2, Raise("ValueError"))
       ELSE Ret(w2, ArrAnd(ArrLe(c.min, moon_separation), ArrLe(moon_separation, c.max)))

\* `x and y` of two array comparisons: the truth value of x, then of y
AndTruth(x, y) ==
    LET tx == Truth(x)
    IN IF IsRaise(tx) THEN tx
       ELSE IF ~tx.data[1] THEN tx
       ELSE Truth(y)

\* if test: then; else: orelse, where the test may raise
Branch(test, then, orelse) ==
    IF IsRaise(test) THEN test ELSE IF test.data[1] THEN then ELSE orelse

\* The illumination rule with the both-bounds rule for every pair of bounds
MoonIlluminationMaskOneRule(c, moon_down_mask, moon_up_mask, illumination) ==
    ArrAnd(ArrAnd(ArrLe(c.min, illumination), ArrLe(illumination, c.max)), moon_up_mask)

\* MoonIlluminationConstraint.compute_constraint, from the masks on
MoonIlluminationMask(c, moon_down_mask, moon_up_mask, illumination) ==
    Branch(AndTruth(ArrLt(c.min, Scalar("int", 0)),
                    ArrLt(c.max, Scalar("int", IlluminationMaxUnset))),
           ArrOr(ArrGe(c.max, illumination), moon_down_mask),
    Branch(AndTruth(ArrGt(c.max, Scalar("int", IlluminationFull)),
                    ArrGt(c.min, Scalar("int", IlluminationMinUnset))),
           ArrAnd(ArrLe(c.min, illumination), moon_up_mask),
    Branch(AndTruth(ArrGt(c.min, Scalar("int", IlluminationMinUnset)),
                    ArrLt(c.max, Scalar("int", IlluminationMaxUnset))),
           ArrAnd(ArrAnd(ArrLe(c.min, illumination), ArrLe(illumination, c.max)),
                  moon_up_mask),
           Raise("ValueError"))))

\* moon_down_mask = moon_alt < 0; moon_up_mask = ~moon_down_mask
MoonIlluminationOf(c, moon_down_mask, illumination) ==
    MoonIlluminationMask(c, moon_down_mask, ArrNot(moon_down_mask), illumination)

\* MoonIlluminationConstraint.compute_constraint
MoonIlluminationCompute(c, w, tm, tgs, ok) ==
    LET cached_moon == GetMoonData(w, tm, FALSE, ok)
    IN Then(cached_moon,
            MoonIlluminationOf(c, ArrLt(MoonEntryAlt(cached_moon.ret), Scalar("int", 0)),
                               MoonEntryIllum(cached_moon.ret)))

\* Comparison of two datetime.time objects: an aware one and a naive one
\* are not ordered (TypeError); two aware ones compare by their UTC time.
TodBad(x, y) == (x[2] = NoTz) # (y[2] = NoTz)
TodKey(x) == IF x[2] = NoTz THEN x[1] ELSE x[1] - x[2][1]
TodLe(x, y) == TodKey(x) <= TodKey(y)
TodLt(x, y) == TodKey(x) < TodKey(y)
TodGe(x, y) == TodKey(x) >= TodKey(y)

\* gettime(times.datetime): the naive UTC time of day of each instant
GetTime(tm) ==
    Arr("tod", tm.shape, [k \in 1..Size(tm) |-> TimeOfDay(tm.data[k] % DayLen, NoTz)])

ArrTodLt(a, b) == Map2(TodLt, TodBad, "bool", a, b)
ArrTodLe(a, b) == Map2(TodLe, TodBad, "bool", a, b)
ArrTodGe(a, b) == Map2(TodGe, TodBad, "bool", a, b)

\* The window without the same-day case: the midnight-straddling rule for
\* every pair of bounds
LocalTimeWindowStraddling(same_day_mask, same_day_mask_values, mask) ==
    IF IsRaise(same_day_mask) THEN same_day_mask
    ELSE IF IsRaise(same_day_mask_values) THEN same_day_mask_values
    ELSE mask

\* mask[same_day_mask] = same_day_mask_values[same_day_mask], the three
\* arrays computed in the order same_day_mask, same_day_mask_values, mask
LocalTimeWindow(same_day_mask, same_day_mask_values, mask) ==
    IF IsRaise(same_day_mask) THEN same_day_mask
    ELSE IF IsRaise(same_day_mask_values) THEN same_day_mask_values
    ELSE AssignWhere(mask, same_day_mask, same_day_mask_values)

\* if mask.shape != (len(targets), len(times)): tile and reshape
TileTargets(mask, n, m) ==
    IF IsRaise(mask) THEN mask
    ELSE IF mask.shape # <<n, m>> THEN Reshape(Tile(mask, n), n, m)
    ELSE mask

\* LocalTimeConstraint.compute_constraint, from the times of day on
LocalTimeMask(c, tod, n, m) ==
    TileTargets(LocalTimeWindow(Tile(ArrTodLt(c.min, c.max), m),
                                ArrAnd(ArrTodLe(c.min, tod), ArrTodLe(tod, c.max)),
                                ArrOr(ArrTodGe(tod, c.min), ArrTodLe(tod, c.max))),
                n, m)

\* LocalTimeConstraint.compute_constraint.  The timezone it looks up is
\* never used: gettz returns an array, which is never None, and nothing
\* reads `timezone` afterwards.
LocalTimeCompute(c, w, tm, tgs, ok) ==
    Ret(w, LocalTimeMask(c, GetTime(tm), Len(tgs), Size(tm)))

\* The time window with its boundary instants included
TimeComputeInclusive(c, w, tm, tgs, ok) ==
    LET n == Len(tgs)
        m == Size(tm)
        min_time == IF IsNone(c.min) THEN Scalar("time", EarlySentinel) ELSE c.min
        max_time == IF IsNone(c.max) THEN Scalar("time", LateSentinel) ELSE c.max
        min_mask == IF Ndim(min_time) = 0
                    THEN Reshape(Tile(ArrGe(tm, min_time), n), n, m)
                    ELSE ArrGe(tm, NewAxis(min_time))
        max_mask == IF Ndim(max_time) = 0
                    THEN Reshape(Tile(ArrLe(tm, max_time), n), n, m)
                    ELSE ArrLe(tm, NewAxis(max_time))
    IN Ret(w, ArrAnd(min_mask, max_mask))

\* TimeConstraint.compute_constraint
TimeCompute(c, w, tm, tgs, ok) ==
    LET n == Len(tgs)
        m == Size(tm)
        min_time == IF IsNone(c.min) THEN Scalar("time", EarlySentinel) ELSE c.min
        max_time == IF IsNone(c.max) THEN Scalar("time", LateSentinel) ELSE c.max
        min_mask == IF Ndim(min_time) = 0
                    THEN Reshape(Tile(ArrGt(tm, min_time), n), n, m)
                    ELSE ArrGt(tm, NewAxis(min_time))
        max_mask == IF Ndim(max_time) = 0
                    THEN Reshape(Tile(ArrLt(tm, max_time), n), n, m)
                    ELSE ArrLt(tm, NewAxis(max_time))
    IN Ret(w, ArrAnd(min_mask, max_mask))

ComputeConstraint(c, w, tm, tgs, ok) ==
    CASE c.kind = "Altitude" -> AltitudeCompute(c, w, tm, tgs, ok)
      [] c.kind = "Airmass" -> AirmassCompute(c, w, tm, tgs, ok)
      [] c.kind = "AtNight" -> AtNightCompute(c, w, tm, tgs, ok)
      [] c.kind = "SunSeparation" -> SunSeparationCompute(c, w, tm, tgs, ok)
      [] c.kind = "MoonSeparation" -> MoonSeparationCompute(c, w, tm, tgs, ok)
      [] c.kind = "MoonIllumination" -> MoonIlluminationCompute(c, w, tm, tgs, ok)
      [] c.kind = "LocalTime" -> LocalTimeCompute(c, w, tm, tgs, ok)
      [] OTHER -> TimeCompute(c, w, tm, tgs, ok)

\* time_grid_from_range(time_range, time_resolution) at a resolution of one
\* tick: the instants from the start up to, not including, the end.
TimeGridFromRange(time_range) ==
    LET s == time_range.data[1]
        e == time_range.data[2]
    IN List("time", [k \in 1..(IF e > s THEN e - s ELSE 0) |-> s + k - 1])

\* The times argument of a call: times (None, a scalar Time or an array)
\* and time_range (None or a pair of instants).
TimeArgs(tms, time_range) == [times |-> tms, time_range |-> time_range]

\* Constraint.__call__, up to the call of compute_constraint: the Time
\* array the evaluator gets.
NormalizeTimes(ta) ==
    LET t0 == IF IsNone(ta.times) /\ ~IsNone(ta.time_range)
              THEN TimeGridFromRange(ta.time_range)
              ELSE IF IsNone(ta.times) THEN Raise("ValueError")
              ELSE ta.times
    IN IF IsArr(t0) /\ Ndim(t0) = 0 THEN List("time", t0.data) ELSE t0

\* Constraint.__call__
Call(c, w, tgs, ta, ok) ==
    LET tm == NormalizeTimes(ta)
    IN IF IsRaise(tm) THEN Ret(w, tm) ELSE ComputeConstraint(c, w, tm, tgs, ok)

----------------------------------------------------------------------------
(* The inputs of the model *)

Deg(v) == Scalar("int", v)
Instant(t) == Scalar("time", t)
Tod(t) == Scalar("tod", TimeOfDay(t, NoTz))

\* The first n targets, as a list
TargetList(n) == [i \in 1..n |-> i]
TargetLists == {TargetList(n) : n \in 1..MaxTargets}

\* n consecutive instants from s on
Run(s, n) == [k \in 1..n |-> s + k - 1]

\* times as one scalar Time, as an array, or left out with a time_range
\* given (an empty range gives an empty grid)
TimeArgsSet ==
    {TimeArgs(Instant(1), NoneV),
     TimeArgs(List("time", Run(0, MaxTimes)), NoneV),
     TimeArgs(NoneV, List("time", <<1, 1>>)),
     TimeArgs(NoneV, List("time", <<1, 1 + MaxTimes>>))}

AltitudeConstraints ==
    {AltitudeConstraint(Deg(20), Deg(40), b) : b \in BOOLEAN}

AirmassConstraints ==
    {AirmassConstraint(Deg(200), Deg(AirmassMinDefault), b) : b \in BOOLEAN}

AtNightConstraints ==
    {AtNightConstraint(Deg(-6), f) : f \in BOOLEAN}

SunSeparationConstraints ==
    {SunSeparationConstraint(NoneV, NoneV), SunSeparationConstraint(Deg(50), Deg(140))}

MoonSeparationConstraints ==
    {MoonSeparationConstraint(NoneV, NoneV, 0), MoonSeparationConstraint(Deg(40), NoneV, 1)}

MoonIlluminationConstraints ==
    {MoonIlluminationConstraint(NoneV, Deg(25), 0), MoonIlluminationConstraint(Deg(65), NoneV, 0)}

LocalTimeConstraints ==
    {LocalTimeConstraint(Tod(MaxInstant), Tod(1)), LocalTimeConstraint(Tod(1), NoneV)}

TimeConstraints ==
    {TimeConstraint(Instant(1), Instant(MaxInstant)), TimeConstraint(NoneV, Instant(2))}

Constraints ==
    AltitudeConstraints \cup AirmassConstraints \cup AtNightConstraints
    \cup SunSeparationConstraints \cup MoonSeparationConstraints
    \cup MoonIlluminationConstraints \cup LocalTimeConstraints \cup TimeConstraints

----------------------------------------------------------------------------
(* The operations *)

SameConstraint(a, b) ==
    /\ a.kind = b.kind
    /\ Same(a.min, b.min)
    /\ Same(a.max, b.max)
    /\ Same(a.max_solar_altitude, b.max_solar_altitude)
    /\ a.boolean_constraint = b.boolean_constraint
    /\ a.force_pressure_zero = b.force_pressure_zero
    /\ a.ephemeris = b.ephemeris

\* The observer and the counters as an operation leaves them
Commit(w) ==
    /\ pressure' = w.pressure
    /\ timezone' = w.timezone
    /\ altaz_cache' = w.altaz_cache
    /\ moon_cache' = w.moon_cache
    /\ calls' = w.calls
    /\ seen' = w.seen

\* constraint(observer, targets, times=..., time_range=...).  repeat says
\* that the operation before was the same call and returned a matrix.
Evaluate(c, ok) ==
    \E r \in {Call(c, World, targets, times, ok)} :
       /\ Commit(r.w)
       /\ last' = [op |-> "call", c |-> c, res |-> r.ret,
                   repeat |-> IF last.op = "call"
                              THEN SameConstraint(last.c, c) /\ IsArr(last.res)
                              ELSE FALSE]
       /\ UNCHANGED <<targets, times>>

\* _get_altaz(times, observer, targets, force_zero_pressure)
LookupAltaz(force_zero_pressure, ok) ==
    \E r \in {GetAltaz(World, NormalizeTimes(times), targets, force_zero_pressure, ok)} :
       /\ Commit(r.w)
       /\ last' = [op |-> "_get_altaz", force_zero_pressure |-> force_zero_pressure,
                   res |-> r.ret]
       /\ UNCHANGED <<targets, times>>

\* _get_moon_data(times, observer, force_zero_pressure)
LookupMoon(force_zero_pressure, ok) ==
    \E r \in {GetMoonData(World, NormalizeTimes(times), force_zero_pressure, ok)} :
       /\ Commit(r.w)
       /\ last' = [op |-> "_get_moon_data", force_zero_pressure |-> force_zero_pressure,
                   res |-> r.ret]
       /\ UNCHANGED <<targets, times>>

ObserverPressure == 1

Init ==
    /\ pressure = ObserverPressure
    /\ timezone = 0
    /\ altaz_cache = <<>>
    /\ moon_cache = <<>>
    /\ calls = 0
    /\ seen = {}
    /\ targets \in TargetLists
    /\ times \in TimeArgsSet
    /\ last = [op |-> "none"]

Next ==
    \/ \E c \in Constraints, ok \in BOOLEAN : Evaluate(c, ok)
    \/ \E f \in BOOLEAN, ok \in BOOLEAN : LookupAltaz(f, ok)
    \/ \E f \in BOOLEAN, ok \in BOOLEAN : LookupMoon(f, ok)

Spec == Init /\ [][Next]_vars

----------------------------------------------------------------------------
(* Evaluation: the shape of the result, the cache and the pressure *)

\* The Time array the session's times argument stands for
SessionTimes == NormalizeTimes(times)

\* C1: a constraint of any kind with scalar limits, called on N >= 1 targets
\* and M >= 1 times, returns a matrix of shape exactly (N, M).
C1_ShapeIsTargetsByTimes ==
    (/\ last.op = "call"
     /\ IsArr(last.res)
     /\ Size(SessionTimes) >= 1)
    => last.res.shape = <<Len(targets), Size(SessionTimes)>>

\* The step is a second evaluation of the constraint that the step before
\* evaluated, and that evaluation returned a matrix.
SecondEvaluation == last'.op = "call" /\ last'.repeat

\* The kinds whose compute_constraint reads the sky through the cache, and
\* the two that do not read the sky at all
CachedKinds == {"Altitude", "Airmass", "AtNight", "MoonIllumination", "LocalTime", "Time"}

\* C4 as stated: for every kind, a second evaluation of an unchanged
\* constraint returns the identical matrix and invokes no collaborator.
C4_SecondEvaluationIsFree ==
    [][(SecondEvaluation /\ IsArr(last'.res)) =>
          (calls' = 0 /\ Same(last'.res, last.res))]_vars

\* C4 as amended: a second evaluation of an Altitude, Airmass, AtNight,
\* MoonIllumination, LocalTime or Time constraint returns the identical
\* matrix and invokes no collaborator; a second evaluation of a
\* SunSeparation or MoonSeparation constraint invokes the collaborators
\* again, and returns the identical matrix when they answer.
C4_SecondEvaluationCached ==
    [][SecondEvaluation =>
          /\ last'.c.kind \in CachedKinds => (calls' = 0 /\ Same(last'.res, last.res))
          /\ last'.c.kind \notin CachedKinds =>
                (calls' > 0 /\ (IsArr(last'.res) => Same(last'.res, last.res)))]_vars

\* A second evaluation of a constraint that reads the sky has answered from
\* the cache.
C4_Witness ==
    /\ last.op = "call"
    /\ last.repeat
    /\ last.c.kind = "Altitude"
    /\ IsArr(last.res)
    /\ calls = 0
    /\ altaz_cache # <<>>

\* The operation of the step asked for a computation at zero pressure.
ZeroPressureRequested(l) ==
    \/ l.op \in {"_get_altaz", "_get_moon_data"} /\ l.force_zero_pressure
    \/ l.op = "call" /\ l.c.kind = "AtNight" /\ l.c.force_pressure_zero

\* C5: after an operation that requests zero pressure, whether the
\* computation returned or raised, observer.pressure is what it was before,
\* and the collaborators it invoked saw the pressure 0 and no other.
C5_PressureRestored ==
    [][ZeroPressureRequested(last') =>
          /\ pressure' = pressure
          /\ calls' > 0 => seen' = {0}]_vars

\* A zero-pressure lookup whose computation raised, after the collaborator
\* saw the pressure 0, has left the observer's pressure as it was.
C5_Witness ==
    /\ last.op = "_get_altaz"
    /\ last.force_zero_pressure
    /\ IsRaise(last.res)
    /\ seen = {0}
    /\ pressure = ObserverPressure

----------------------------------------------------------------------------
(* The aggregate queries is_observable and is_always_observable *)

MaxList == 2

\* The constraints argument: a list of constraints, or one constraint alone
ListOf(items) == [tag |-> "list", items |-> items]

\* if not hasattr(constraints, '__len__'): constraints = [constraints]
AsList(constraints) ==
    IF constraints.tag = "list" THEN constraints.items ELSE <<constraints>>

\* [constraint(observer, targets, times=times, time_range=time_range, ...)
\*  for constraint in constraints]: the matrices in order, up to and
\* including the first evaluation that raises.
AppendApplied(done, r) == [w |-> r.w, rets |-> Append(done.rets, r.ret)]

ApplyNext(done, constraint, tgs, ta, ok) ==
    IF done.rets # <<>> /\ IsRaise(done.rets[Len(done.rets)]) THEN done
    ELSE AppendApplied(done, Call(constraint, done.w, tgs, ta, ok))

Applied(constraints, w, tgs, ta, ok) ==
    LET upto[k \in 0..Len(constraints)] ==
            IF k = 0 THEN [w |-> w, rets |-> <<>>]
            ELSE ApplyNext(upto[k - 1], constraints[k], tgs, ta, ok)
    IN upto[Len(constraints)]

\* The truth value of an element of a matrix: a float is true unless zero
Truthy(a, k) ==
    IF a.dtype = "bool" THEN a.data[k]
    ELSE IF a.dtype = "float" THEN ~(a.data[k][1] = 0 /\ a.data[k][2] # 0)
    ELSE a.data[k] # 0

\* np.logical_and.reduce(applied_constraints): the list becomes one array
\* with the constraints along its first axis, which needs all the matrices
\* to have one shape; the empty list reduces to the scalar True.
LogicalAndReduce(applied) ==
    IF \E k \in 1..Len(applied) : IsRaise(applied[k])
    THEN applied[Len(applied)]
    ELSE IF applied = <<>> THEN Scalar("bool", TRUE)
    ELSE IF \E k \in 1..Len(applied) : applied[k].shape # applied[1].shape
    THEN Raise("ValueError")
    ELSE Arr("bool", applied[1].shape,
             [e \in 1..Size(applied[1]) |-> \A k \in 1..Len(applied) : Truthy(applied[k], e)])

\* np.any(a, axis=0)
AnyAxis0(a) ==
    IF IsRaise(a) THEN a
    ELSE IF Ndim(a) < 2 THEN Raise("AxisError")
    ELSE Arr("bool", <<a.shape[2]>>,
             [j \in 1..a.shape[2] |-> \E i \in 1..a.shape[1] : a.data[(i - 1) * a.shape[2] + j]])

\* np.any(a, axis=1)
AnyAxis1(a) ==
    IF IsRaise(a) THEN a
    ELSE IF Ndim(a) < 2 THEN Raise("AxisError")
    ELSE Arr("bool", <<a.shape[1]>>,
             [i \in 1..a.shape[1] |-> \E j \in 1..a.shape[2] : a.data[(i - 1) * a.shape[2] + j]])

\* np.all(a, axis=1)
AllAxis1(a) ==
    IF IsRaise(a) THEN a
    ELSE IF Ndim(a) < 2 THEN Raise("AxisError")
    ELSE Arr("bool", <<a.shape[1]>>,
             [i \in 1..a.shape[1] |-> \A j \in 1..a.shape[2] : a.data[(i - 1) * a.shape[2] + j]])

\* constraint_arr = np.logical_and.reduce(applied_constraints);
\* np.all(constraint_arr, axis=1)
AllOverTimes(applied_constraints) ==
    [w |-> applied_constraints.w, applied |-> applied_constraints.rets,
     ret |-> AllAxis1(LogicalAndReduce(applied_constraints.rets))]

\* constraint_arr = np.logical_and.reduce(applied_constraints);
\* np.any(constraint_arr, axis=1)
AnyOverTimes(applied_constraints) ==
    [w |-> applied_constraints.w, applied |-> applied_constraints.rets,
     ret |-> AnyAxis1(LogicalAndReduce(applied_constraints.rets))]

\* is_always_observable(constraints, observer, targets, times, time_range)
IsAlwaysObservable(constraints, w, tgs, ta, ok) ==
    AllOverTimes(Applied(AsList(constraints), w, tgs, ta, ok))

\* is_observable(constraints, observer, targets, times, time_range)
IsObservable(constraints, w, tgs, ta, ok) ==
    AnyOverTimes(Applied(AsList(constraints), w, tgs, ta, ok))

\* The constraints the lists are made of
ListedConstraints ==
    {AltitudeConstraint(Deg(20), Deg(40), TRUE),
     MoonIlluminationConstraint(NoneV, Deg(25), 0),
     TimeConstraint(Instant(0), NoneV)}

ConstraintLists ==
    {ListOf(l) : l \in UNION {[1..k -> ListedConstraints] : k \in 1..MaxList}}
    \cup ListedConstraints

SameConstraints(a, b) ==
    /\ a.tag = b.tag
    /\ Len(AsList(a)) = Len(AsList(b))
    /\ \A k \in 1..Len(AsList(a)) : SameConstraint(AsList(a)[k], AsList(b)[k])

AggregateOps == {"is_observable", "is_always_observable"}

\* What is_observable keeps of the query before it: the result of
\* is_always_observable, when that was the query and it had the same
\* constraints.
Before(constraints) ==
    IF last.op = "is_always_observable"
    THEN IF SameConstraints(last.constraints, constraints) THEN last.res ELSE NoneV
    ELSE NoneV

QueryAlways(constraints, ok) ==
    \E r \in {IsAlwaysObservable(constraints, World, targets, times, ok)} :
       /\ Commit(r.w)
       /\ last' = [op |-> "is_always_observable", constraints |-> constraints,
                   applied |-> r.applied, res |-> r.ret, before |-> NoneV]
       /\ UNCHANGED <<targets, times>>

QueryEver(constraints, ok) ==
    \E r \in {IsObservable(constraints, World, targets, times, ok)} :
       /\ Commit(r.w)
       /\ last' = [op |-> "is_observable", constraints |-> constraints,
                   applied |-> r.applied, res |-> r.ret, before |-> Before(constraints)]
       /\ UNCHANGED <<targets, times>>

NextAgg ==
    \/ \E cs \in ConstraintLists, ok \in BOOLEAN : QueryAlways(cs, ok)
    \/ \E cs \in ConstraintLists, ok \in BOOLEAN : QueryEver(cs, ok)

SpecAgg == Init /\ [][NextAgg]_vars

\* No evaluation the query made raised.
AllReturned == \A k \in 1..Len(last.applied) : IsArr(last.applied[k])

\* The elementwise AND of every constraint's matrix at target i, time j
CombinedAt(i, j) ==
    \A k \in 1..Len(last.applied) :
        Truthy(last.applied[k], (i - 1) * Size(SessionTimes) + j)

\* C2: for a non-empty list of constraints and at least one time,
\* is_observable returns for each target the OR over the times, and is_always_observable the AND over the
\* times, of the AND of every constraint's matrix, and each constraint is
\* evaluated exactly once.
C2_ReducesOverTimesPerTarget ==
    (last.op \in AggregateOps /\ AllReturned /\ Size(SessionTimes) >= 1) =>
        /\ Len(last.applied) = Len(AsList(last.constraints))
        /\ IsArr(last.res)
        /\ last.res.shape = <<Len(targets)>>
        /\ \A i \in 1..Len(targets) :
              last.res.data[i] =
                 IF last.op = "is_observable"
                 THEN \E j \in 1..Size(SessionTimes) : CombinedAt(i, j)
                 ELSE \A j \in 1..Size(SessionTimes) : CombinedAt(i, j)

\* is_observable has answered right after is_always_observable had, for
\* the same constraints, observer, targets and times.
BothAnswered ==
    /\ last.op = "is_observable"
    /\ IsArr(last.before)
    /\ IsArr(last.res)

\* Every target that is_always_observable reported is one that
\* is_observable reports.
AlwaysWithinEver ==
    /\ last.res.shape = last.before.shape
    /\ \A i \in 1..Size(last.res) : last.before.data[i] => last.res.data[i]

\* C3 as stated: for a time set of any length, every target that is always
\* observable is also ever observable.
C3_AlwaysImpliesEver == BothAnswered => AlwaysWithinEver

\* C3 as amended: for a time set of at least one instant, every target that
\* is always observable is also ever observable.
C3_AlwaysImpliesEverNonEmpty ==
    (BothAnswered /\ Size(SessionTimes) >= 1) => AlwaysWithinEver

\* Over a non-empty time set, a target is always observable, and ever
\* observable.
C3_Witness ==
    /\ BothAnswered
    /\ Size(SessionTimes) >= 1
    /\ \E i \in 1..Size(last.res) : last.before.data[i] /\ last.res.data[i]
----------------------------------------------------------------------------
(* Vectorization: many scalar-limit instances merged into one instance *)

\* _get_limit_values(constraint_list, limit_name): None, the list of the
\* scalars, or the ValueError it raises
GetLimitValues(constraint_list, limit_name) ==
    LET vals == [k \in 1..Len(constraint_list) |-> constraint_list[k][limit_name]]
        vals_are_none == [k \in 1..Len(vals) |-> IsNone(vals[k])]
    IN IF \E k \in 1..Len(vals) : vals_are_none[k]
       THEN IF \A k \in 1..Len(vals) : vals_are_none[k]
            THEN NoneV
            ELSE Raise("ValueError")
       ELSE IF ~(\A k \in 1..Len(vals) : vals[k].shape = <<1, 1>>)
       THEN Raise("ValueError")
       ELSE List(vals[1].dtype, [k \in 1..Len(vals) |-> vals[k].data[1]])

\* np.all([c.<flag> for c in constraint_list])
NpAll(constraint_list, flag) ==
    \A k \in 1..Len(constraint_list) : constraint_list[k][flag]

\* np.any([c.<flag> for c in constraint_list])
NpAny(constraint_list, flag) ==
    \E k \in 1..Len(constraint_list) : constraint_list[k][flag]

\* cls(...) once the limit values are there: the exception of the first
\* _get_limit_values that raised, else the instance
Built(first_vals, second_vals, instance) ==
    IF IsRaise(first_vals) THEN first_vals
    ELSE IF IsRaise(second_vals) THEN second_vals
    ELSE instance

\* AltitudeConstraint.vectorize
AltitudeVectorize(constraint_list) ==
    LET min_vals == GetLimitValues(constraint_list, "min")
        max_vals == GetLimitValues(constraint_list, "max")
        boolean_constraint == NpAll(constraint_list, "boolean_constraint")
    IN Built(min_vals, max_vals, AltitudeConstraint(min_vals, max_vals, boolean_constraint))

\* AirmassConstraint.vectorize
AirmassVectorize(constraint_list) ==
    LET min_vals == GetLimitValues(constraint_list, "min")
        max_vals == GetLimitValues(constraint_list, "max")
        boolean_constraint == NpAny(constraint_list, "boolean_constraint")
    IN Built(min_vals, max_vals, AirmassConstraint(max_vals, min_vals, boolean_constraint))

\* AtNightConstraint.vectorize
AtNightVectorize(constraint_list) ==
    LET max_vals == GetLimitValues(constraint_list, "max_solar_altitude")
        pressure_zero == NpAny(constraint_list, "force_pressure_zero")
    IN Built(max_vals, max_vals, AtNightConstraint(max_vals, pressure_zero))

\* SunSeparationConstraint.vectorize
SunSeparationVectorize(constraint_list) ==
    LET min_vals == GetLimitValues(constraint_list, "min")
        max_vals == GetLimitValues(constraint_list, "max")
    IN Built(min_vals, max_vals, SunSeparationConstraint(min_vals, max_vals))

\* MoonSeparationConstraint.vectorize: the ephemeris is left at its default
MoonSeparationVectorize(constraint_list) ==
    LET min_vals == GetLimitValues(constraint_list, "min")
        max_vals == GetLimitValues(constraint_list, "max")
    IN Built(min_vals, max_vals, MoonSeparationConstraint(min_vals, max_vals, 0))

\* MoonIlluminationConstraint.vectorize is a plain function of two
\* parameters (it has no @classmethod): called on the class with the list,
\* as the other kinds are, the list is bound to cls and constraint_list is
\* missing.
MoonIlluminationVectorize(constraint_list) == Raise("TypeError")

\* LocalTimeConstraint.vectorize
LocalTimeVectorize(constraint_list) ==
    LET min_vals == GetLimitValues(constraint_list, "min")
        max_vals == GetLimitValues(constraint_list, "max")
    IN Built(min_vals, max_vals, LocalTimeConstraint(min_vals, max_vals))

\* `vals is None` of a list, which np.any and np.all are then given
ListIsNone(vals) == FALSE

\* [not val.isscalar for val in vals]: None has no isscalar, and None
\* itself cannot be iterated
NotScalarChecks(vals) ==
    IF IsRaise(vals) THEN vals
    ELSE IF IsNone(vals) THEN Raise("TypeError")
    ELSE IF \E k \in 1..Len(vals.items) : IsNone(vals.items[k]) THEN Raise("AttributeError")
    ELSE Arr("bool", <<Len(vals.items)>>,
             [k \in 1..Len(vals.items) |-> Ndim(vals.items[k]) # 0])

\* cls(min_vals, max_vals) of two lists of scalar Times
TimeOfLists(min_vals, max_vals) ==
    TimeConstraint(List("time", [k \in 1..Len(min_vals.items) |-> min_vals.items[k].data[1]]),
                   List("time", [k \in 1..Len(max_vals.items) |-> max_vals.items[k].data[1]]))

\* TimeConstraint.vectorize, from the two scalar checks on
TimeVectorizeChecked(min_vals, max_vals, min_checks, max_checks) ==
    IF IsRaise(min_vals) THEN min_vals
    ELSE IF IsRaise(max_vals) THEN max_vals
    ELSE IF IsRaise(min_checks) THEN min_checks
    ELSE IF \E k \in 1..Size(min_checks) : min_checks.data[k] THEN Raise("ValueError")
    ELSE IF IsRaise(max_checks) THEN max_checks
    ELSE IF \E k \in 1..Size(max_checks) : max_checks.data[k] THEN Raise("ValueError")
    ELSE TimeOfLists(min_vals, max_vals)

\* if np.any(vals is None): None if np.all(vals is None), else ValueError
NoneOrMixed(vals) ==
    IF ListIsNone(vals) THEN (IF ListIsNone(vals) THEN NoneV ELSE Raise("ValueError"))
    ELSE vals

\* TimeConstraint.vectorize
TimeVectorize(constraint_list) ==
    LET min_vals ==
            NoneOrMixed(ListOf([k \in 1..Len(constraint_list) |-> constraint_list[k].min]))
        max_vals ==
            NoneOrMixed(ListOf([k \in 1..Len(constraint_list) |-> constraint_list[k].max]))
    IN TimeVectorizeChecked(min_vals, max_vals,
                            NotScalarChecks(min_vals), NotScalarChecks(max_vals))

Kinds ==
    {"Altitude", "Airmass", "AtNight", "SunSeparation", "MoonSeparation",
     "MoonIllumination", "LocalTime", "Time"}

\* <kind>Constraint.vectorize(constraint_list)
VectorizeOf(kind, constraint_list) ==
    CASE kind = "Altitude" -> AltitudeVectorize(constraint_list)
      [] kind = "Airmass" -> AirmassVectorize(constraint_list)
      [] kind = "AtNight" -> AtNightVectorize(constraint_list)
      [] kind = "SunSeparation" -> SunSeparationVectorize(constraint_list)
      [] kind = "MoonSeparation" -> MoonSeparationVectorize(constraint_list)
      [] kind = "MoonIllumination" -> MoonIlluminationVectorize(constraint_list)
      [] kind = "LocalTime" -> LocalTimeVectorize(constraint_list)
      [] OTHER -> TimeVectorize(constraint_list)

----------------------------------------------------------------------------
(* The inputs and operations of vectorization *)

\* The instances that lists to merge are made of, per kind: scalar
\* limits, limits left unset, and instances that are vectorized already
VecAltitude ==
    {AltitudeConstraint(Deg(20), Deg(40), TRUE),
     AltitudeConstraint(Deg(0), Deg(60), FALSE),
     AltitudeConstraint(List("int", <<20, 0>>), NoneV, TRUE)}

VecAirmass ==
    {AirmassConstraint(Deg(200), Deg(AirmassMinDefault), TRUE),
     AirmassConstraint(Deg(300), Deg(AirmassMinDefault), FALSE),
     AirmassConstraint(NoneV, Deg(AirmassMinDefault), TRUE)}

VecAtNight ==
    {AtNightConstraint(Deg(-6), TRUE), AtNightConstraint(Deg(0), FALSE)}

VecTime ==
    {TimeConstraint(Instant(0), Instant(MaxInstant)),
     TimeConstraint(Instant(1), NoneV),
     TimeConstraint(List("time", <<0, 1>>), NoneV)}

Pool(kind) ==
    CASE kind = "Altitude" -> VecAltitude
      [] kind = "Airmass" -> VecAirmass
      [] kind = "AtNight" -> VecAtNight
      [] kind = "SunSeparation" -> SunSeparationConstraints
      [] kind = "MoonSeparation" -> MoonSeparationConstraints
      [] kind = "MoonIllumination" -> MoonIlluminationConstraints
      [] kind = "LocalTime" -> LocalTimeConstraints
      [] OTHER -> VecTime

ConstraintListsOf(kind) == UNION {[1..k -> Pool(kind)] : k \in 1..MaxVec}

\* merged = <kind>Constraint.vectorize(constraint_list)
Vectorize(kind, constraint_list) ==
    /\ last' = [op |-> "vectorize", kind |-> kind, list |-> constraint_list,
                res |-> VectorizeOf(kind, constraint_list)]
    /\ UNCHANGED <<pressure, timezone, altaz_cache, moon_cache, calls, seen,
                   targets, times>>

\* merged(observer, targets, times=..., time_range=...) of the instance
\* that vectorize returned
EvaluateMerged(ok) ==
    /\ last.op = "vectorize"
    /\ IsConstraint(last.res)
    /\ \E r \in {Call(last.res, World, targets, times, ok)} :
          /\ Commit(r.w)
          /\ last' = [op |-> "call_merged", kind |-> last.kind, list |-> last.list,
                      c |-> last.res, ok |-> ok, res |-> r.ret]
    /\ UNCHANGED <<targets, times>>

NextVec ==
    \/ \E kind \in Kinds : \E constraint_list \in ConstraintListsOf(kind) :
          Vectorize(kind, constraint_list)
    \/ \E ok \in BOOLEAN : EvaluateMerged(ok)

SpecVec == Init /\ [][NextVec]_vars

----------------------------------------------------------------------------
(* Vectorization: what merging accepts, and what the merged instance gives *)

LimitNames(kind) == IF kind = "AtNight" THEN {"max_solar_altitude"} ELSE {"min", "max"}

\* The limit is unset (None) on instance c
Unset(c, limit_name) == IsNone(c[limit_name])

\* Instance c carries a non-scalar limit of that name
NonScalar(c, limit_name) ==
    /\ ~Unset(c, limit_name)
    /\ c[limit_name].shape # <<>>
    /\ c[limit_name].shape # <<1, 1>>

\* Set on some instances of the list and unset on others
Mixed(constraint_list, limit_name) ==
    /\ \E k \in 1..Len(constraint_list) : Unset(constraint_list[k], limit_name)
    /\ \E k \in 1..Len(constraint_list) : ~Unset(constraint_list[k], limit_name)

UnsetOnAll(constraint_list, limit_name) ==
    \A k \in 1..Len(constraint_list) : Unset(constraint_list[k], limit_name)

\* What the merge must reject: a mixed limit, or a non-scalar one
Rejected(constraint_list, limit_name) ==
    \/ Mixed(constraint_list, limit_name)
    \/ \E k \in 1..Len(constraint_list) : NonScalar(constraint_list[k], limit_name)

\* A list of scalar-limit instances that the merge must accept
Mergeable(kind, constraint_list) ==
    \A limit_name \in LimitNames(kind) : ~Rejected(constraint_list, limit_name)

\* A boolean matrix as numbers (True is 1, False is 0); a matrix of scores
\* as it is
AsFloat(a) ==
    IF a.dtype # "bool" THEN a
    ELSE Arr("float", a.shape, [k \in 1..Size(a) |-> IF a.data[k] THEN <<1, 1>> ELSE <<0, 1>>])

\* The rows of K matrices of one row each, stacked
StackRows(rows) ==
    LET m == Size(rows[1])
    IN Arr("float", <<Len(rows), m>>,
           [e \in 1..(Len(rows) * m) |-> AsFloat(rows[((e - 1) \div m) + 1]).data[((e - 1) % m) + 1]])

\* Instance i evaluated against target i alone, for each i
Alone(constraint_list, tgs, ta) ==
    [i \in 1..Len(constraint_list) |-> Call(constraint_list[i], World, <<tgs[i]>>, ta, TRUE).ret]

\* The merged instance's matrix is the stack of the rows in rows
MatchesStacked(res, rows) ==
    (\A i \in 1..Len(rows) : IsArr(rows[i])) =>
        /\ IsArr(res)
        /\ Same(AsFloat(res), StackRows(rows))

\* C6: for every kind, vectorizing K scalar-limit instances gives an
\* instance, and evaluating it once against K targets gives the same
\* matrix as evaluating instance i against target i alone and stacking the
\* K rows.
C6_VectorizedMatchesStacked ==
    /\ (last.op = "vectorize" /\ Mergeable(last.kind, last.list)) => IsConstraint(last.res)
    /\ (/\ last.op = "call_merged"
        /\ last.ok
        /\ Mergeable(last.kind, last.list)
        /\ Len(last.list) = Len(targets))
       => MatchesStacked(last.res, Alone(last.list, targets, times))

\* C7: for every kind and every limit name, a list in which the limit is
\* set on some instances and unset on others, or non-scalar on some
\* instance, makes vectorize fail and return no instance; a list that has
\* nothing of the kind, and has the limit unset on every instance, gives a
\* merged instance with that limit unset.
C7_AllOrNothingPerLimit ==
    last.op = "vectorize" =>
        /\ \A limit_name \in LimitNames(last.kind) :
              Rejected(last.list, limit_name) => IsRaise(last.res)
        /\ \A limit_name \in LimitNames(last.kind) :
              (Mergeable(last.kind, last.list) /\ UnsetOnAll(last.list, limit_name))
              => (IsConstraint(last.res) /\ IsNone(last.res[limit_name]))

----------------------------------------------------------------------------
(* Time windows: observers in several timezones, every time of day *)

\* observer.timezone, as hours east of UTC
Timezones == {0, 1}

\* A datetime.time that carries a tzinfo of the given offset
AwareTod(t, offset) == Scalar("tod", TimeOfDay(t, <<offset>>))

\* All the instants of one day, one instant alone, and a range
WindowTimeArgs ==
    {TimeArgs(List("time", Run(0, DayLen)), NoneV),
     TimeArgs(Instant(MaxInstant), NoneV),
     TimeArgs(NoneV, List("time", <<1, MaxInstant>>))}

\* Windows within one day, across midnight, of one instant, open at one
\* end, and with a bound that carries a timezone
WindowLocalTimeConstraints ==
    {LocalTimeConstraint(Tod(MaxInstant), Tod(1)),
     LocalTimeConstraint(Tod(1), Tod(2)),
     LocalTimeConstraint(Tod(2), Tod(2)),
     LocalTimeConstraint(Tod(1), NoneV),
     LocalTimeConstraint(AwareTod(1, 1), NoneV),
     LocalTimeConstraint(NoneV, AwareTod(2, 1))}

WindowTimeConstraints ==
    {TimeConstraint(Instant(1), Instant(MaxInstant)),
     TimeConstraint(Instant(2), Instant(2)),
     TimeConstraint(NoneV, Instant(2)),
     TimeConstraint(Instant(1), NoneV)}

InitTime ==
    /\ pressure = ObserverPressure
    /\ timezone \in Timezones
    /\ altaz_cache = <<>>
    /\ moon_cache = <<>>
    /\ calls = 0
    /\ seen = {}
    /\ targets \in TargetLists
    /\ times \in WindowTimeArgs
    /\ last = [op |-> "none"]

NextTime ==
    \E c \in WindowLocalTimeConstraints \cup WindowTimeConstraints, ok \in BOOLEAN :
        Evaluate(c, ok)

SpecTime == InitTime /\ [][NextTime]_vars

\* The last operation evaluated a constraint of that kind and returned
Returned(kind) == last.op = "call" /\ last.c.kind = kind /\ IsArr(last.res)

\* Element (i, j) of the matrix the last evaluation returned
ResultAt(i, j) == last.res.data[(i - 1) * last.res.shape[2] + j]

\* The instant of column j
InstantAt(j) == SessionTimes.data[j]

\* The instants a time window is compared with: its bound, or the far
\* past / far future when the bound is left out
Earliest(c) == IF IsNone(c.min) THEN EarlySentinel ELSE c.min.data[1]
Latest(c) == IF IsNone(c.max) THEN LateSentinel ELSE c.max.data[1]

WindowRule(lo, hi, t) ==
    \/ lo < hi /\ lo <= t /\ t <= hi
    \/ lo >= hi /\ (t >= lo \/ t <= hi)

\* The time of day of column j that the evaluator extracts from the
\* instant (times.datetime: the UTC clock)
ClockAt(j) == InstantAt(j) % DayLen

\* The hour of a bound
HourOf(limit) == limit.data[1][1]

ResolvedTimezone(c) ==
    IF c.min.data[1][2] # NoTz THEN c.min.data[1][2][1]
    ELSE IF c.max.data[1][2] # NoTz THEN c.max.data[1][2][1]
    ELSE timezone

\* The local clock time of column j in a timezone
LocalClockAt(j, offset) == (InstantAt(j) + offset) % DayLen

\* C10: the time of day a LocalTimeConstraint compares with its bounds is
\* the local clock time of each instant in the resolved timezone (that of
\* min, else of max, else the observer's), so that the result follows the
\* observer's timezone when the bounds carry none.
C10_ComparesLocalClock ==
    (last.op = "call" /\ last.c.kind = "LocalTime") =>
        /\ IsArr(last.res)
        /\ \A i \in 1..Len(targets), j \in 1..Size(SessionTimes) :
              ResultAt(i, j) <=> WindowRule(HourOf(last.c.min), HourOf(last.c.max),
                                           LocalClockAt(j, ResolvedTimezone(last.c)))

----------------------------------------------------------------------------
(* The rules of the angle, airmass and illumination constraints *)

\* The bounds a caller may give, or leave out
AltitudeBounds == {NoneV, Deg(20), Deg(40)}
IlluminationBounds == {NoneV, Deg(0), Deg(25), Deg(65), Deg(IlluminationFull)}
SunSeparationBounds == {NoneV, Deg(50), Deg(140)}
MoonSeparationBounds == {NoneV, Deg(70), Deg(140)}
AirmassBounds == {NoneV, Deg(115), Deg(292)}

RuleConstraints ==
    {AltitudeConstraint(mn, mx, TRUE) : mn, mx \in AltitudeBounds}
    \cup {MoonIlluminationConstraint(mn, mx, 0) : mn, mx \in IlluminationBounds}
    \cup {SunSeparationConstraint(mn, mx) : mn, mx \in SunSeparationBounds}
    \cup {MoonSeparationConstraint(mn, mx, 0) : mn, mx \in MoonSeparationBounds}
    \cup {AirmassConstraint(mx, mn, FALSE) : mn, mx \in AirmassBounds}

InitRule ==
    /\ pressure = ObserverPressure
    /\ timezone = 0
    /\ altaz_cache = <<>>
    /\ moon_cache = <<>>
    /\ calls = 0
    /\ seen = {}
    /\ targets \in TargetLists
    /\ times \in WindowTimeArgs
    /\ last = [op |-> "none"]

\* The ephemerides answer every request here
NextRule == \E c \in RuleConstraints : Evaluate(c, TRUE)

SpecRule == InitRule /\ [][NextRule]_vars

\* The last operation evaluated that constraint and returned
ReturnedFor(c) == last.op = "call" /\ SameConstraint(last.c, c) /\ IsArr(last.res)

\* The bound a caller gave, or what stands for it when it is left out
Given(bound, omitted) == IF IsNone(bound) THEN omitted ELSE bound.data[1]

\* The rows of the matrix the last evaluation returned
ResultRows == 1..last.res.shape[1]

\* What the observer reports for target i at column j, and for the Moon
AltitudeAt(i, j) == TargetAlt(targets[i], InstantAt(j), pressure)
MoonDownAt(j) == MoonAlt(InstantAt(j), pressure) < 0
IlluminationAt(j) == MoonIllum(InstantAt(j))

\* C11: for every MoonIlluminationConstraint, whatever its bounds, every
\* instant at which the Moon is below the horizon is marked satisfied.
C11_MoonDownAlwaysSatisfied ==
    Returned("MoonIllumination") =>
        \A i \in ResultRows, j \in 1..Size(SessionTimes) : MoonDownAt(j) => ResultAt(i, j)

C13_AltitudeWindowInclusive ==
    \A mn, mx \in AltitudeBounds :
        ReturnedFor(AltitudeConstraint(mn, mx, TRUE)) =>
            /\ last.res.shape = <<Len(targets), Size(SessionTimes)>>
            /\ \A i \in 1..Len(targets), j \in 1..Size(SessionTimes) :
                  ResultAt(i, j) <=>
                      (Given(mn, -90) <= AltitudeAt(i, j) /\ AltitudeAt(i, j) <= Given(mx, 90))

\* An evaluation that accepted an altitude equal to min and one equal to
\* max, and rejected another
C13_Witness ==
    /\ ReturnedFor(AltitudeConstraint(Deg(20), Deg(40), TRUE))
    /\ \E i \in 1..Len(targets), j \in 1..Size(SessionTimes) :
          AltitudeAt(i, j) = 20 /\ ResultAt(i, j)
    /\ \E i \in 1..Len(targets), j \in 1..Size(SessionTimes) :
          AltitudeAt(i, j) = 40 /\ ResultAt(i, j)
    /\ \E i \in 1..Len(targets), j \in 1..Size(SessionTimes) : ~ResultAt(i, j)

\* What the ephemerides report for target i at column j
SunSeparationAt(i, j) == SunSep(targets[i], InstantAt(j))
MoonSeparationAt(i, j) == MoonSep(targets[i], InstantAt(j), 0)

\* The last operation evaluated that constraint and raised an error of
\* its own, not one of the ephemerides
FailedFor(c) ==
    /\ last.op = "call"
    /\ SameConstraint(last.c, c)
    /\ IsRaise(last.res)
    /\ last.res.exc # "EphemerisError"

\* The matrix the last evaluation returned marks the pairs whose value
\* lies inclusively within lo and hi
WithinAt(lo, hi, i, j, value) == ResultAt(i, j) <=> (lo <= value /\ value <= hi)

\* C14: a SunSeparationConstraint, and a MoonSeparationConstraint, with
\* at least one bound given is satisfied iff the separation lies
\* inclusively within the given bounds; with neither given it fails with
\* an error instead of producing a matrix.
C14_SeparationNeedsABound ==
    /\ \A mn, mx \in SunSeparationBounds :
          /\ (IsNone(mn) /\ IsNone(mx)) => ~ReturnedFor(SunSeparationConstraint(mn, mx))
          /\ ReturnedFor(SunSeparationConstraint(mn, mx)) =>
                \A i \in 1..Len(targets), j \in 1..Size(SessionTimes) :
                    WithinAt(Given(mn, 0), Given(mx, 180), i, j, SunSeparationAt(i, j))
    /\ \A mn, mx \in MoonSeparationBounds :
          /\ (IsNone(mn) /\ IsNone(mx)) => ~ReturnedFor(MoonSeparationConstraint(mn, mx, 0))
          /\ ReturnedFor(MoonSeparationConstraint(mn, mx, 0)) =>
                \A i \in 1..Len(targets), j \in 1..Size(SessionTimes) :
                    WithinAt(Given(mn, 0), Given(mx, 180), i, j, MoonSeparationAt(i, j))

\* C14 as the code has it: for each of the four combinations the
\* constraint is satisfied iff the separation lies inclusively within the
\* bounds, an omitted min being 0 degrees and an omitted max 180 degrees,
\* so that with neither given every pair is satisfied; the constraint
\* raises no error of its own.
C14_SeparationWithinDefaultedBounds ==
    /\ \A mn, mx \in SunSeparationBounds :
          /\ ~FailedFor(SunSeparationConstraint(mn, mx))
          /\ ReturnedFor(SunSeparationConstraint(mn, mx)) =>
                /\ last.res.shape = <<Len(targets), Size(SessionTimes)>>
                /\ \A i \in 1..Len(targets), j \in 1..Size(SessionTimes) :
                      WithinAt(Given(mn, 0), Given(mx, 180), i, j, SunSeparationAt(i, j))
    /\ \A mn, mx \in MoonSeparationBounds :
          /\ ~FailedFor(MoonSeparationConstraint(mn, mx, 0))
          /\ ReturnedFor(MoonSeparationConstraint(mn, mx, 0)) =>
                /\ last.res.shape = <<Len(targets), Size(SessionTimes)>>
                /\ \A i \in 1..Len(targets), j \in 1..Size(SessionTimes) :
                      WithinAt(Given(mn, 0), Given(mx, 180), i, j, MoonSeparationAt(i, j))

\* An evaluation with neither bound given that returned a matrix of True
\* for at least two pairs, one of them at a separation of 50 degrees
C14_Witness ==
    /\ ReturnedFor(SunSeparationConstraint(NoneV, NoneV))
    /\ Size(last.res) >= 2
    /\ \A k \in 1..Size(last.res) : last.res.data[k]
    /\ \E i \in 1..Len(targets), j \in 1..Size(SessionTimes) : SunSeparationAt(i, j) = 50

\* The airmass the observer reports for target i at column j, in hundredths
AirmassAt(i, j) == SecZ(AltitudeAt(i, j))

\* The score of the last evaluation at (i, j) is the fraction n / d
ScoreAt(i, j, n, d) == ResultAt(i, j) = Frac(n, d)

\* The inverse-direction score of airmass v between lo and hi, with the
\* score below_lo below lo
AirmassScoreAt(i, j, lo, hi, below_lo) ==
    IF AirmassAt(i, j) < lo THEN ScoreAt(i, j, below_lo, 1)
    ELSE IF AirmassAt(i, j) > hi THEN ScoreAt(i, j, 0, 1)
    ELSE ScoreAt(i, j, AirmassAt(i, j) - hi, lo - hi)

\* C15: an AirmassConstraint in continuous mode fails with an error when
\* max is unset; with max set it scores 1 at airmass = min, 0 at airmass =
\* max and above max, and 1 for the airmasses below min.
C15_AirmassScoreBelowMinIsBest ==
    \A mn, mx \in AirmassBounds :
        /\ IsNone(mx) => ~ReturnedFor(AirmassConstraint(mx, mn, FALSE))
        /\ (ReturnedFor(AirmassConstraint(mx, mn, FALSE)) /\ Given(mn, 100) < Given(mx, 0)) =>
              \A i \in 1..Len(targets), j \in 1..Size(SessionTimes) :
                  AirmassScoreAt(i, j, Given(mn, 100), mx.data[1], 1)

\* C15 as the code has it: the airmasses below min score 0, as those
\* above max do.
C15_AirmassScoreBelowMinIsWorst ==
    \A mn, mx \in AirmassBounds :
        /\ IsNone(mx) => ~ReturnedFor(AirmassConstraint(mx, mn, FALSE))
        /\ (ReturnedFor(AirmassConstraint(mx, mn, FALSE)) /\ Given(mn, 100) < Given(mx, 0)) =>
              /\ last.res.shape = <<Len(targets), Size(SessionTimes)>>
              /\ \A i \in 1..Len(targets), j \in 1..Size(SessionTimes) :
                    AirmassScoreAt(i, j, Given(mn, 100), mx.data[1], 0)

\* An evaluation in continuous mode that scored an airmass equal to min
\* with 1 and an airmass below min with 0
C15_Witness ==
    /\ ReturnedFor(AirmassConstraint(Deg(292), Deg(115), FALSE))
    /\ \E i \in 1..Len(targets), j \in 1..Size(SessionTimes) :
          AirmassAt(i, j) = 115 /\ ScoreAt(i, j, 1, 1)
    /\ \E i \in 1..Len(targets), j \in 1..Size(SessionTimes) :
          AirmassAt(i, j) < 115 /\ ScoreAt(i, j, 0, 1)

----------------------------------------------------------------------------
(* The rescaling functions on their own *)

MaxVals == 1

\* The values of the arrays to rescale, and the documented examples
\* (airmasses in hundredths; altitudes in degrees)
RescaleValues == {0, 20, 35, 45, 60, 70}
AirmassExample == <<100, 150, 200, 300, 0>>
AltitudeExample == <<20, 30, 40, 45, 55, 70>>

RescaleArrays ==
    {List("int", v) : v \in UNION {[1..k -> RescaleValues] : k \in 1..MaxVals}}
    \cup {List("int", AirmassExample), List("int", AltitudeExample)}

\* <<min_val, max_val>>
RescaleRanges == {<<35, 60>>, <<20, 45>>, <<100, 225>>}

\* less_than_min, greater_than_max
OutOfRangeScores == {0, 1, 5}

\* rescaled = min_best_rescale(vals, min_val, max_val, less_than_min);
\* vals_after is the caller's array once the function has returned: the
\* function writes to `rescaled`, a new array, only.
MinRescale(vals, range, less_than_min) ==
    /\ last' = [op |-> "min_best_rescale", vals |-> vals,
                min_val |-> range[1], max_val |-> range[2], out_of_range |-> less_than_min,
                vals_after |-> vals,
                res |-> MinBestRescale(vals, Scalar("int", range[1]),
                                       Scalar("int", range[2]), less_than_min)]
    /\ UNCHANGED <<pressure, timezone, altaz_cache, moon_cache, calls, seen,
                   targets, times>>

\* rescaled = max_best_rescale(vals, min_val, max_val, greater_than_max)
MaxRescale(vals, range, greater_than_max) ==
    /\ last' = [op |-> "max_best_rescale", vals |-> vals,
                min_val |-> range[1], max_val |-> range[2], out_of_range |-> greater_than_max,
                vals_after |-> vals,
                res |-> MaxBestRescale(vals, Scalar("int", range[1]),
                                       Scalar("int", range[2]), greater_than_max)]
    /\ UNCHANGED <<pressure, timezone, altaz_cache, moon_cache, calls, seen,
                   targets, times>>

InitRescale ==
    /\ pressure = ObserverPressure
    /\ timezone = 0
    /\ altaz_cache = <<>>
    /\ moon_cache = <<>>
    /\ calls = 0
    /\ seen = {}
    /\ targets = TargetList(1)
    /\ times = TimeArgs(Instant(1), NoneV)
    /\ last = [op |-> "none"]

NextRescale ==
    \/ \E vals \in RescaleArrays, range \in RescaleRanges, s \in OutOfRangeScores :
          MinRescale(vals, range, s)
    \/ \E vals \in RescaleArrays, range \in RescaleRanges, s \in OutOfRangeScores :
          MaxRescale(vals, range, s)

SpecRescale == InitRescale /\ [][NextRescale]_vars

\* The score <<n, d>> is the number p / q
IsRatio(score, p, q) == score[2] # 0 /\ score[1] * q = p * score[2]

\* Element k of the array given and of the array returned
ValueIn(k) == last.vals.data[k]
ScoreOut(k) == last.res.data[k]

C17_MaxBestRescale ==
    last.op = "max_best_rescale" =>
        /\ IsArr(last.res)
        /\ last.res.shape = last.vals.shape
        /\ \A k \in 1..Size(last.vals) :
              IF ValueIn(k) < last.min_val THEN IsRatio(ScoreOut(k), 0, 1)
              ELSE IF ValueIn(k) > last.max_val THEN IsRatio(ScoreOut(k), last.out_of_range, 1)
              ELSE IsRatio(ScoreOut(k), ValueIn(k) - last.min_val, last.max_val - last.min_val)
        /\ (/\ last.vals.data = AltitudeExample
            /\ last.min_val = 35
            /\ last.max_val = 60
            /\ last.out_of_range = 1)
           => /\ Size(last.res) = 6
              /\ IsRatio(ScoreOut(1), 0, 1)
              /\ IsRatio(ScoreOut(2), 0, 1)
              /\ IsRatio(ScoreOut(3), 2, 10)
              /\ IsRatio(ScoreOut(4), 4, 10)
              /\ IsRatio(ScoreOut(5), 8, 10)
              /\ IsRatio(ScoreOut(6), 1, 1)

\* The documented example of max_best_rescale, rescaled
C17_Witness ==
    /\ last.op = "max_best_rescale"
    /\ last.vals.data = AltitudeExample
    /\ last.min_val = 35
    /\ last.max_val = 60
    /\ last.out_of_range = 1
    /\ IsArr(last.res)
    /\ IsRatio(ScoreOut(6), 1, 1)

----------------------------------------------------------------------------
(* The observability table *)

\* np.sum(a, axis=1) / a.shape[1]: a division by zero gives nan (<<0, 0>>)
FractionAxis1(a) ==
    IF IsRaise(a) THEN a
    ELSE IF Ndim(a) < 2 THEN Raise("AxisError")
    ELSE Arr("float", <<a.shape[1]>>,
             [i \in 1..a.shape[1] |->
                 Frac(Cardinality({j \in 1..a.shape[2] : a.data[(i - 1) * a.shape[2] + j]}),
                      a.shape[2])])

\* table.Table(names=colnames, data=[target_names, ever_obs, always_obs,
\* frac_obs]): the columns must have one length
Table(target_names, ever_obs, always_obs, frac_obs) ==
    IF IsRaise(ever_obs) THEN ever_obs
    ELSE IF IsRaise(always_obs) THEN always_obs
    ELSE IF IsRaise(frac_obs) THEN frac_obs
    ELSE IF \/ Size(ever_obs) # Len(target_names)
            \/ Size(always_obs) # Len(target_names)
            \/ Size(frac_obs) # Len(target_names)
    THEN Raise("ValueError")
    ELSE [tag |-> "table", names |-> target_names, ever |-> ever_obs,
          always |-> always_obs, frac |-> frac_obs]

\* ever_obs, always_obs and frac_obs of constraint_arr, made into the table
TableOf(target_names, constraint_arr) ==
    Table(target_names, AnyAxis1(constraint_arr), AllAxis1(constraint_arr),
          FractionAxis1(constraint_arr))

\* constraint_arr = np.logical_and.reduce(applied_constraints) and the
\* table of it
TableOverTimes(applied_constraints, tgs) ==
    [w |-> applied_constraints.w, applied |-> applied_constraints.rets,
     ret |-> TableOf(tgs, LogicalAndReduce(applied_constraints.rets))]

\* observability_table(constraints, observer, targets, times, time_range)
ObservabilityTable(constraints, w, tgs, ta, ok) ==
    TableOverTimes(Applied(AsList(constraints), w, tgs, ta, ok), tgs)

QueryTable(constraints, ok) ==
    \E r \in {ObservabilityTable(constraints, World, targets, times, ok)} :
       /\ Commit(r.w)
       /\ last' = [op |-> "observability_table", constraints |-> constraints,
                   applied |-> r.applied, res |-> r.ret]
       /\ UNCHANGED <<targets, times>>

NextTable == \E cs \in ConstraintLists, ok \in BOOLEAN : QueryTable(cs, ok)

SpecTable == Init /\ [][NextTable]_vars

\* What is_observable and is_always_observable return for the inputs of
\* the last query, whose evaluations gave the matrices in last.applied
EverObservable == AnyOverTimes([w |-> World, rets |-> last.applied]).ret
AlwaysObservable == AllOverTimes([w |-> World, rets |-> last.applied]).ret

\* The number of sampled times at which all constraints hold for target i
TimesObservable(i) == Cardinality({j \in 1..Size(SessionTimes) : CombinedAt(i, j)})

\* C18: observability_table returns one record per target whose 'ever
\* observable' and 'always observable' flags are what is_observable and
\* is_always_observable return for the same inputs, and whose fraction is
\* (number of sampled times at which all constraints hold) / (number of
\* sampled times): within [0, 1], 1 iff always observable and > 0 iff ever
\* observable.
C18_TableMatchesQueries ==
    (last.op = "observability_table" /\ IsArr(EverObservable) /\ IsArr(AlwaysObservable)) =>
        /\ last.res.tag = "table"
        /\ Len(last.res.names) = Len(targets)
        /\ Same(last.res.ever, EverObservable)
        /\ Same(last.res.always, AlwaysObservable)
        /\ \A i \in 1..Len(targets) :
              /\ IsRatio(last.res.frac.data[i], TimesObservable(i), Size(SessionTimes))
              /\ (last.res.frac.data[i][1] = last.res.frac.data[i][2])
                 <=> last.res.always.data[i]
              /\ (last.res.frac.data[i][1] > 0) <=> last.res.ever.data[i]

----------------------------------------------------------------------------
(* A single target in place of a list of targets *)

\* What len(targets), tuple(targets), `for target in targets` and
\* targets[:, np.newaxis] do with a single target: __call__ takes the
\* branch for a single target when targets has no __len__, and passes it
\* on as it is.
NotASequence == Raise("TypeError")

\* _get_altaz with a single target: tuple(targets) raises before the cache
\* is looked at
GetAltazSingle(w, tm, target, force_zero_pressure, ok) == Ret(w, NotASequence)

\* AtNightConstraint._get_solar_altitudes with a single target: the Sun's
\* altitudes are fetched or computed and stored, then len(targets) raises
GetSolarAltitudesSingle(c, w, tm, target, ok) ==
    LET altitude == GetSolarAltitudes(c, w, tm, <<target>>, ok)
    IN Ret(altitude.w, IF IsRaise(altitude.ret) THEN altitude.ret ELSE NotASequence)

\* SunSeparationConstraint.compute_constraint with a single target: the
\* Sun's alt-az is asked for, then the iteration over targets raises
SunSeparationComputeSingle(c, w, tm, target, ok) ==
    Ret(Invoke(Invoke(w)), IF ~ok THEN Raise("EphemerisError") ELSE NotASequence)

\* MoonSeparationConstraint.compute_constraint with a single target: the
\* Moon is asked for once per instant, get_skycoord gives the target's one
\* coordinate, and targets[:, np.newaxis] raises
MoonSeparationComputeSingle(c, w, tm, target, ok) ==
    IF Size(tm) = 0 THEN Ret(w, Raise("IndexError"))
    ELSE IF ~ok THEN Ret(Invoke(w), Raise("EphemerisError"))
    ELSE Ret(InvokeN(w, Size(tm)), NotASequence)

\* LocalTimeConstraint.compute_constraint with a single target: the mask
\* over the times is computed, then len(targets) raises
LocalTimeComputeSingle(c, w, tm, target, ok) ==
    LET tod == GetTime(tm)
        mask == LocalTimeWindow(Tile(ArrTodLt(c.min, c.max), Size(tm)),
                                ArrAnd(ArrTodLe(c.min, tod), ArrTodLe(tod, c.max)),
                                ArrOr(ArrTodGe(tod, c.min), ArrTodLe(tod, c.max)))
    IN Ret(w, IF IsRaise(mask) THEN mask ELSE NotASequence)

\* TimeConstraint.compute_constraint with a single target: len(targets)
\* is asked for when a limit is scalar or unset
TimeComputeSingle(c, w, tm, target, ok) ==
    LET min_time == IF IsNone(c.min) THEN Scalar("time", EarlySentinel) ELSE c.min
        max_time == IF IsNone(c.max) THEN Scalar("time", LateSentinel) ELSE c.max
    IN IF Ndim(min_time) = 0 \/ Ndim(max_time) = 0 THEN Ret(w, NotASequence)
       ELSE Ret(w, ArrAnd(ArrGt(tm, NewAxis(min_time)), ArrLt(tm, NewAxis(max_time))))

\* compute_constraint(times, observer, targets) with a single target
ComputeConstraintSingle(c, w, tm, target, ok) ==
    CASE c.kind = "Altitude" -> GetAltazSingle(w, tm, target, FALSE, ok)
      [] c.kind = "Airmass" -> GetAltazSingle(w, tm, target, FALSE, ok)
      [] c.kind = "AtNight" -> GetSolarAltitudesSingle(c, w, tm, target, ok)
      [] c.kind = "SunSeparation" -> SunSeparationComputeSingle(c, w, tm, target, ok)
      [] c.kind = "MoonSeparation" -> MoonSeparationComputeSingle(c, w, tm, target, ok)
      [] c.kind = "MoonIllumination" -> MoonIlluminationCompute(c, w, tm, <<target>>, ok)
      [] c.kind = "LocalTime" -> LocalTimeComputeSingle(c, w, tm, target, ok)
      [] OTHER -> TimeComputeSingle(c, w, tm, target, ok)

\* Constraint.__call__ with a single target
CallSingle(c, w, target, ta, ok) ==
    LET tm == NormalizeTimes(ta)
    IN IF IsRaise(tm) THEN Ret(w, tm) ELSE ComputeConstraintSingle(c, w, tm, target, ok)

\* constraint(observer, targets[0], times=..., time_range=...); listed is
\* what constraint(observer, targets, ...) returns from the same state
EvaluateSingle(c, ok) ==
    /\ Len(targets) = 1
    /\ \E r \in {CallSingle(c, World, targets[1], times, ok)} :
          /\ Commit(r.w)
          /\ last' = [op |-> "call_single", c |-> c, ok |-> ok, res |-> r.ret,
                      listed |-> Call(c, World, targets, times, ok).ret]
    /\ UNCHANGED <<targets, times>>

NextSingle == \E c \in Constraints, ok \in BOOLEAN : EvaluateSingle(c, ok)

SpecSingle == Init /\ [][NextSingle]_vars

\* C19: when targets is a single target rather than a sequence, the call
\* succeeds for every concrete constraint and returns the same matrix as
\* the call with the one-element list holding that target.
C19_SingleTargetAsOneTargetList ==
    (last.op = "call_single" /\ IsArr(last.listed)) =>
        IsArr(last.res) /\ Same(last.res, last.listed)

----------------------------------------------------------------------------
(* The cached lookups over changing times and targets *)

\* The times arguments of the lookups: one instant, and a grid
CacheTimeArgs ==
    {TimeArgs(Instant(1), NoneV),
     TimeArgs(NoneV, List("time", <<1, 1 + MaxTimes>>))}

\* The targets arguments of the lookups: one target, and the most
CacheTargetLists == {TargetList(1), TargetList(MaxTargets)}

\* _get_altaz(times, observer, targets, force_zero_pressure)
LookupAltazOf(tgs, ta, force_zero_pressure, ok) ==
    \E r \in {GetAltaz(World, NormalizeTimes(ta), tgs, force_zero_pressure, ok)} :
       /\ Commit(r.w)
       /\ last' = [op |-> "_get_altaz", res |-> r.ret]
       /\ targets' = tgs
       /\ times' = ta

\* _get_moon_data(times, observer, force_zero_pressure)
LookupMoonOf(ta, force_zero_pressure, ok) ==
    \E r \in {GetMoonData(World, NormalizeTimes(ta), force_zero_pressure, ok)} :
       /\ Commit(r.w)
       /\ last' = [op |-> "_get_moon_data", res |-> r.ret]
       /\ times' = ta
       /\ UNCHANGED targets

\* AtNightConstraint._get_solar_altitudes(times, observer, targets), for
\* the targets of the lookup before
LookupSunOf(c, ta, ok) ==
    \E r \in {GetSolarAltitudes(c, World, NormalizeTimes(ta), targets, ok)} :
       /\ Commit(r.w)
       /\ last' = [op |-> "_get_solar_altitudes", res |-> r.ret]
       /\ times' = ta
       /\ UNCHANGED targets

InitCache ==
    /\ pressure = ObserverPressure
    /\ timezone = 0
    /\ altaz_cache = <<>>
    /\ moon_cache = <<>>
    /\ calls = 0
    /\ seen = {}
    /\ targets = TargetList(1)
    /\ times \in CacheTimeArgs
    /\ last = [op |-> "none"]

NextCache ==
    \E ta \in CacheTimeArgs, ok \in BOOLEAN :
       \/ \E tgs \in CacheTargetLists, f \in BOOLEAN : LookupAltazOf(tgs, ta, f, ok)
       \/ LookupMoonOf(ta, FALSE, ok)
       \/ \E c \in AtNightConstraints : LookupSunOf(c, ta, ok)

SpecCache == InitCache /\ [][NextCache]_vars

\* The cache the lookup of the step reads and the key of its request: the
\* exact time values with the targets, or with the Sun, or alone
CacheOf(l, altaz, moon) == IF l.op = "_get_moon_data" THEN moon ELSE altaz

KeyOf(l, tgs, tm) ==
    CASE l.op = "_get_altaz" -> <<tm.data, tgs>>
      [] l.op = "_get_solar_altitudes" -> <<tm.data, <<Sun>>>>
      [] OTHER -> tm.data

\* The result is the stored entry; a lookup of the Sun's altitudes gives
\* the stored altitudes once per target
IsEntry(l, res, entry, n) ==
    IF l.op = "_get_solar_altitudes"
    THEN /\ IsArr(res)
         /\ res.shape = <<n, Size(entry)>>
         /\ \A i \in 1..n : \A j \in 1..Size(entry) :
               res.data[(i - 1) * Size(entry) + j] = entry.data[j]
    ELSE Same(res, entry)

Kept(before, after) ==
    \A k \in DOMAIN before : k \in DOMAIN after /\ Same(after[k], before[k])

\* What every step of the lookups does with the caches: the entries are
\* kept, a request whose key is stored runs no computation and returns the
\* stored entry, and a computation that raises stores nothing
CacheStep ==
    /\ Kept(altaz_cache, altaz_cache')
    /\ Kept(moon_cache, moon_cache')
    /\ KeyOf(last', targets', NormalizeTimes(times')) \in DOMAIN CacheOf(last', altaz_cache, moon_cache) =>
          /\ calls' = 0
          /\ IsEntry(last', last'.res,
                     CacheOf(last', altaz_cache, moon_cache)[KeyOf(last', targets', NormalizeTimes(times'))],
                     Len(targets'))
          /\ altaz_cache' = altaz_cache
          /\ moon_cache' = moon_cache
    /\ IsRaise(last'.res) =>
          (altaz_cache' = altaz_cache /\ moon_cache' = moon_cache)

\* The step repeats the request of the step before, whose computation ran
RepeatsComputedRequest ==
    /\ last.op = last'.op
    /\ KeyOf(last', targets', NormalizeTimes(times')) = KeyOf(last, targets, NormalizeTimes(times))
    /\ calls > 0

----------------------------------------------------------------------------
(* The two modes of AltitudeConstraint *)

\* The bounds of the altitude windows, or none
ModeBounds == {NoneV, Deg(0), Deg(40)}

AltitudeModes ==
    {AltitudeConstraint(mn, mx, b) : mn, mx \in ModeBounds, b \in BOOLEAN}

NextModes == \E c \in AltitudeModes : Evaluate(c, TRUE)

SpecModes == InitRule /\ [][NextModes]_vars

\* What the constraint of the last evaluation gives in boolean mode for
\* the same observer, targets and times
BooleanRule ==
    Call([last.c EXCEPT !.boolean_constraint = TRUE], World, targets, times, TRUE).ret

BooleanRuleAt(i, j) == BooleanRule.data[(i - 1) * Size(SessionTimes) + j]

\* The last evaluation was one in continuous mode with min < max
ContinuousAltitude ==
    /\ last.op = "call"
    /\ last.c.kind = "Altitude"
    /\ ~last.c.boolean_constraint
    /\ last.c.min.data[1] < last.c.max.data[1]
    /\ IsArr(last.res)

ScoreWithin01(i, j) ==
    /\ ResultAt(i, j)[2] > 0
    /\ 0 <= ResultAt(i, j)[1]
    /\ ResultAt(i, j)[1] <= ResultAt(i, j)[2]

\* C26 as stated: for the same min < max, wherever the boolean rule of
\* AltitudeConstraint is False (altitude below min or above max) the
\* continuous score is 0, and wherever it is True the score lies in [0, 1].
C26_OutOfRangeScoresZero ==
    ContinuousAltitude =>
        \A i \in 1..Len(targets), j \in 1..Size(SessionTimes) :
            IF BooleanRuleAt(i, j) THEN ScoreWithin01(i, j) ELSE ScoreAt(i, j, 0, 1)

\* C26 as amended: wherever the boolean rule is False the score is 0 for
\* an altitude below min and 1 for an altitude above max, and wherever it
\* is True the score lies in [0, 1].
C26_BelowScoresZeroAboveScoresOne ==
    ContinuousAltitude =>
        /\ last.res.shape = <<Len(targets), Size(SessionTimes)>>
        /\ \A i \in 1..Len(targets), j \in 1..Size(SessionTimes) :
              IF BooleanRuleAt(i, j) THEN ScoreWithin01(i, j)
              ELSE IF AltitudeAt(i, j) < last.c.min.data[1] THEN ScoreAt(i, j, 0, 1)
              ELSE AltitudeAt(i, j) > last.c.max.data[1] /\ ScoreAt(i, j, 1, 1)

\* A continuous evaluation that met an altitude below min, one above max
\* and one strictly between them
C26_Witness ==
    /\ ContinuousAltitude
    /\ \E i \in 1..Len(targets), j \in 1..Size(SessionTimes) :
          ~BooleanRuleAt(i, j) /\ AltitudeAt(i, j) < last.c.min.data[1]
    /\ \E i \in 1..Len(targets), j \in 1..Size(SessionTimes) :
          ~BooleanRuleAt(i, j) /\ AltitudeAt(i, j) > last.c.max.data[1]
    /\ \E i \in 1..Len(targets), j \in 1..Size(SessionTimes) :
          BooleanRuleAt(i, j) /\ ResultAt(i, j)[1] > 0 /\ ResultAt(i, j)[1] < ResultAt(i, j)[2]

----------------------------------------------------------------------------
(* The cache and the results of evaluations *)

\* The observer as it is, with nothing cached on it
Uncached == [World EXCEPT !.altaz_cache = <<>>, !.moon_cache = <<>>]

\* What the last operation returns on the observer with nothing cached
FromScratch ==
    CASE last.op = "call" -> Call(last.c, Uncached, targets, times, TRUE).ret
      [] last.op = "_get_altaz" ->
            GetAltaz(Uncached, SessionTimes, targets, last.force_zero_pressure, TRUE).ret
      [] OTHER -> GetMoonData(Uncached, SessionTimes, last.force_zero_pressure, TRUE).ret

\* C24: for a fixed observer, times and targets, what a constraint or a
\* cached lookup returns is the same whatever was evaluated on that
\* observer before: it is what it returns with nothing cached, also when
\* an earlier operation at the same times asked for zero pressure and this
\* one does not, or the other way round.
C24_CacheIsTransparent ==
    (last.op \in {"call", "_get_altaz", "_get_moon_data"} /\ IsArr(last.res)) =>
        Same(last.res, FromScratch)

----------------------------------------------------------------------------
(* A constraint instance: construction, assignment to a limit, evaluation *)

\* The values a caller gives a limit: none, one value, or one value per
\* target of MaxVec targets
LimitValues(kind) ==
    CASE kind = "LocalTime" ->
            {NoneV, Tod(1), List("tod", [k \in 1..MaxVec |-> TimeOfDay(k, NoTz)])}
      [] kind = "Time" -> {NoneV, Instant(1), List("time", Run(0, MaxVec))}
      [] kind = "MoonIllumination" -> {NoneV, Deg(25), List("int", [k \in 1..MaxVec |-> 25 * k])}
      [] kind = "Airmass" -> {NoneV, Deg(200), List("int", [k \in 1..MaxVec |-> 100 + 100 * k])}
      [] OTHER -> {NoneV, Deg(20), List("int", [k \in 1..MaxVec |-> 20 * k])}

\* <kind>Constraint(min, max), or AtNightConstraint(max_solar_altitude)
NewConstraint(kind, first, second) ==
    CASE kind = "Altitude" -> AltitudeConstraint(first, second, TRUE)
      [] kind = "Airmass" -> AirmassConstraint(second, first, FALSE)
      [] kind = "AtNight" -> AtNightConstraint(second, FALSE)
      [] kind = "SunSeparation" -> SunSeparationConstraint(first, second)
      [] kind = "MoonSeparation" -> MoonSeparationConstraint(first, second, 0)
      [] kind = "MoonIllumination" -> MoonIlluminationConstraint(first, second, 0)
      [] kind = "LocalTime" -> LocalTimeConstraint(first, second)
      [] OTHER -> TimeConstraint(first, second)

\* instance.<limit_name> = value: through limit_setter where the class
\* declares the attribute with limit(), a plain attribute of TimeConstraint
SetAttr(instance, limit_name, value) ==
    IF instance.kind = "Time" THEN [instance EXCEPT ![limit_name] = value]
    ELSE [instance EXCEPT ![limit_name] = RecastLimits(value)]

\* instance = <kind>Constraint(...)
Construct(kind, first, second) ==
    /\ last' = [op |-> "init", c |-> NewConstraint(kind, first, second)]
    /\ UNCHANGED <<pressure, timezone, altaz_cache, moon_cache, calls, seen,
                   targets, times>>

\* instance.<limit_name> = value, own saying that the value is the one
\* the attribute holds
Assign(limit_name, value, own) ==
    /\ last.op # "none"
    /\ IsConstraint(last.c)
    /\ limit_name \in LimitNames(last.c.kind)
    /\ last' = [op |-> "setattr", c |-> SetAttr(last.c, limit_name, value),
                limit_name |-> limit_name, value |-> value, own |-> own]
    /\ UNCHANGED <<pressure, timezone, altaz_cache, moon_cache, calls, seen,
                   targets, times>>

\* An evaluation that keeps on the instance the bound it puts in the place
\* of a min that is unset
EvaluateInstanceDefaulting(ok) ==
    /\ last.op # "none"
    /\ IsConstraint(last.c)
    /\ \E r \in {Call(last.c, World, targets, times, ok)} :
          /\ Commit(r.w)
          /\ last' = [op |-> "call", ok |-> ok, res |-> r.ret,
                      c |-> [last.c EXCEPT
                                !.min = IF IsNone(@) THEN Scalar("time", EarlySentinel) ELSE @]]
    /\ UNCHANGED <<targets, times>>

\* instance(observer, targets, times=..., time_range=...)
EvaluateInstance(ok) ==
    /\ last.op # "none"
    /\ IsConstraint(last.c)
    /\ \E r \in {Call(last.c, World, targets, times, ok)} :
          /\ Commit(r.w)
          /\ last' = [op |-> "call", c |-> last.c, ok |-> ok, res |-> r.ret]
    /\ UNCHANGED <<targets, times>>

\* is_observable(instance, observer, targets, times=..., time_range=...)
QueryInstance(ok) ==
    /\ last.op # "none"
    /\ IsConstraint(last.c)
    /\ \E r \in {IsObservable(last.c, World, targets, times, ok)} :
          /\ Commit(r.w)
          /\ last' = [op |-> "is_observable", c |-> last.c, ok |-> ok, res |-> r.ret]
    /\ UNCHANGED <<targets, times>>

InitLimit ==
    /\ pressure = ObserverPressure
    /\ timezone = 0
    /\ altaz_cache = <<>>
    /\ moon_cache = <<>>
    /\ calls = 0
    /\ seen = {}
    /\ targets \in TargetLists
    /\ times = TimeArgs(NoneV, List("time", <<0, 1 + MaxTimes>>))
    /\ last = [op |-> "none"]

NextLimit ==
    \/ \E kind \in Kinds : \E first, second \in LimitValues(kind) :
          Construct(kind, first, second)
    \/ /\ last.op # "none"
       /\ IsConstraint(last.c)
       /\ \E limit_name \in LimitNames(last.c.kind) :
             \/ \E value \in LimitValues(last.c.kind) : Assign(limit_name, value, FALSE)
             \/ Assign(limit_name, last.c[limit_name], TRUE)

SpecLimit == InitLimit /\ [][NextLimit]_vars

NextInstance ==
    \/ \E kind \in Kinds : \E first, second \in LimitValues(kind) :
          Construct(kind, first, second)
    \/ \E ok \in BOOLEAN : EvaluateInstance(ok)
    \/ \E ok \in BOOLEAN : QueryInstance(ok)

SpecInstance == InitLimit /\ [][NextInstance]_vars

\* The instance at hand, once there is one
HasInstance == last.op # "none" /\ IsConstraint(last.c)

\* A column: a two-dimensional array of shape (N, 1)
IsColumn(a) == IsArr(a) /\ Ndim(a) = 2 /\ a.shape[2] = 1

\* C21: for every constraint kind, after construction and after any later
\* assignment to a limit attribute, the stored limit is None or a column
\* array of shape (N, 1) (N = 1 for a scalar bound).
C21_LimitsAreColumns ==
    HasInstance =>
        \A limit_name \in LimitNames(last.c.kind) :
            IsNone(last.c[limit_name]) \/ IsColumn(last.c[limit_name])

\* The last operation assigned to a limit a value that is a column already
AssignedColumn == HasInstance /\ last.op = "setattr" /\ IsColumn(last.value)

\* C25: assigning to a limit attribute a value that is a column array of
\* shape (N, 1) already, such as the attribute's own current value, stores
\* a limit of the same shape (N, 1) and the same values, for every N >= 1.
C25_RecastIsIdempotent ==
    AssignedColumn => Same(last.c[last.limit_name], last.value)

\* The last operation evaluated the instance, and the ephemerides answered
EvaluatedInstance == HasInstance /\ last.op = "call" /\ last.ok

\* The instance holds a per-target limit whose leading dimension is not
\* the number of targets
LeadingMismatch ==
    \E limit_name \in LimitNames(last.c.kind) :
        NonScalar(last.c, limit_name) /\ last.c[limit_name].shape[1] # Len(targets)

\* The limits of the instance are scalar, or unset
ScalarLimits == \A limit_name \in LimitNames(last.c.kind) : ~NonScalar(last.c, limit_name)

ShapeError == IsRaise(last.res) /\ last.res.exc = "ValueError"

\* The instance lacks a bound that its rule asks for, which is a
\* ValueError of its own: max of a continuous AirmassConstraint, and min
\* and max both of a MoonIlluminationConstraint
MissingBound ==
    \/ last.c.kind = "Airmass" /\ IsNone(last.c.max)
    \/ /\ last.c.kind = "MoonIllumination"
       /\ last.c.min.data[1] = IlluminationMinUnset
       /\ last.c.max.data[1] = IlluminationMaxUnset

\* C22: for every constraint kind, evaluating an instance with a
\* per-target limit whose leading dimension differs from the number of
\* targets fails with a shape error and returns no result, and an instance
\* with scalar limits never fails with that error, whatever the number of
\* targets.
C22_LimitShapeIsChecked ==
    EvaluatedInstance =>
        /\ LeadingMismatch => ShapeError
        /\ (ScalarLimits /\ ~MissingBound) => ~ShapeError

============================================================================
